---------------------------- MODULE Spec2Model ----------------------------
(***************************************************************************)
(* Model of the ESP32 energy meter reader: the protocol exchange engine    *)
(* (MeterReader, meter_reader.h) and the record decoder (DataParser,       *)
(* data_parser.h), with the serial channels and the optical front-end      *)
(* enable line they drive (communication.h, hardware_control.h).           *)
(*                                                                         *)
(* Bytes are the integers 0..255.  An Arduino String is the sequence of    *)
(* its bytes.  C++ offsets are 0-based; TLA+ sequences are 1-based, so     *)
(* the C++ expression s[k] is written At(s, k) == s[k + 1].                *)
(***************************************************************************)
EXTENDS Integers, Sequences, FiniteSets, TLC

VARIABLES
  comm,          \* MeterReader::comm is set (not nullptr)
  hardware,      \* MeterReader::hardware is set (not nullptr)
  pc,            \* position of the thread of control
  type,          \* readMeter's argument `type` (a MeterType as an integer)
  data,          \* the caller's MeterData: [rawData, isValid, type]
  ret,           \* value returned by readMeter
  irdaRx,        \* unread bytes in the receive buffer of irdaSerial (Serial2)
  irRx,          \* unread bytes in the receive buffer of irSerial (Serial1)
  irdaEn,        \* level of PIN_IRDA_EN: TRUE = optical front end enabled
  irdaBaud,      \* baud rate irdaSerial was last configured with (0: never)
  irBaud,        \* baud rate irSerial was last configured with (0: never)
  msgs,          \* the static ProtocolMessages arrays, as they are in memory
  i,             \* loop counter of the 1-phase scripts
  responseData,  \* local String of the 1-phase scripts
  msg2,          \* local buffer of the derived command (msg2, msg7, solarMsg)
  caller,        \* who called readMeterIRDA3PH: "readMeter" or "solar"
  seed,          \* what the meter of this call fills its responses with
  log,           \* history of this call: every channel and line operation
  parserComm,    \* DataParser::comm is set (not nullptr)
  dpc,           \* position of a call into DataParser: idle, called, returned
  entry,         \* the public function of DataParser that is called
  arg,           \* its arguments: [rawData, isValid, type, digitCount]
  parsed,        \* the ParsedMeterData the parser writes to
  success,       \* value returned by the call
  ran,           \* the variant parser the call ran, "none" if it ran none
  out,           \* lines the call printed through comm->println
  bleCommand,    \* main: the command being handled, "" when none is
  printed,       \* main: what the handler sent to the host so far
  config,        \* main: the SystemConfig of the ConfigManager
  pktRead,       \* a packet read in progress: the locals of readIRDAPacket
  millis,        \* the clock of the device, ms since boot
  powerMgr,      \* the fields of the PowerManager
  ota,           \* the OTAManager, the firmware in flash and the one running
  led,           \* level of PIN_LED: TRUE = the status LED is lit
  handledAt,     \* the clock when handleCommand last returned, -1: not yet
  btRx,          \* unread characters in the receive buffer of bluetoothSerial
  arrived,       \* every character the host has sent over Bluetooth so far
  delivered,     \* every character handed to handleCommand so far
  preferences    \* the stored settings: the Preferences namespace "credentials"

readerVars == <<comm, hardware, pc, type, data, ret, irdaRx, irRx, irdaEn,
                irdaBaud, irBaud, msgs, i, responseData, msg2, caller, seed,
                log>>

parserVars == <<dpc, entry, arg, parsed, success, ran, out>>

decoderVars == <<parserComm, parserVars>>

deviceVars == <<pktRead, millis, powerMgr, ota, led, handledAt>>

bleVars == <<btRx, arrived, delivered>>

mainRest == <<bleCommand, printed, config, preferences, deviceVars, arrived,
              delivered>>

mainVars == <<mainRest, btRx>>

vars == <<readerVars, decoderVars, mainVars>>

-----------------------------------------------------------------------------
(* Bounds of the model *)

\* bytes a meter response falls short of the requested length in the short case
ShortBy == 1
\* bytes a meter sends beyond the requested length in the over-long case
OverBy == 2
\* stray bytes that may sit in a receive buffer after a channel is reconfigured
NoiseLen == 1
\* number of different fill patterns a meter may answer with
NumSeeds == 1

-----------------------------------------------------------------------------
(* Program constants *)

METER_TYPE_UNKNOWN == 0
IRDA_1PH_RAW == 1
IRDA_1PH_PARSED == 2
IRDA_3PH_RAW == 3
IRDA_3PH_PARSED == 4
IRDA_3PH_14HP == 5
IRDA_3PH_13HP == 6
IRDA_3PH_SOLAR_RAW == 7
IRDA_3PH_SOLAR_PARSED == 8
IR_1PH_RAW == 9
IR_1PH_PARSED == 10
IR_3PH_RAW == 11
IR_3PH_PARSED == 12
\* a value outside the enumeration (a cast integer)
METER_TYPE_OUTSIDE == IR_3PH_PARSED + 1

BAUD_RATE_2400 == 2400
BAUD_RATE_9600 == 9600

MeterTypes == METER_TYPE_UNKNOWN..METER_TYPE_OUTSIDE

\* ProtocolMessages, meter_reader.h:89-113
IRDA_3PH_MSG1 == <<149, 149, 255, 255, 255, 11, 150, 49, 17, 5, 0>>
IRDA_3PH_MSG2 == <<149, 149, 255, 255, 255, 11, 0, 49, 17, 5, 0>>
IRDA_3PH_MSG5 == <<149, 149, 255, 255, 255, 11, 1, 49, 17, 5, 0>>
IRDA_3PH_MSG6 ==
  <<149, 149, 255, 255, 255, 255, 255, 255, 255, 255, 16, 150, 49, 17, 5, 0>>
IRDA_3PH_MSG7 ==
  <<149, 149, 255, 255, 255, 255, 255, 255, 255, 255, 16, 0, 49, 17, 5, 0>>
IR_3PH_MSG == <<185, 158, 142, 126, 30>>
\* ":00413BC4", ":00423AC5", ":004339C6", ":004537C8", ":004636C9"
IRDA_1PH_CMD_STRINGS ==
  << <<58, 48, 48, 52, 49, 51, 66, 67, 52>>,
     <<58, 48, 48, 52, 50, 51, 65, 67, 53>>,
     <<58, 48, 48, 52, 51, 51, 57, 67, 54>>,
     <<58, 48, 48, 52, 53, 51, 55, 67, 56>>,
     <<58, 48, 48, 52, 54, 51, 54, 67, 57>> >>

\* the static arrays as one memory image
ProtocolMessages ==
  [MSG1 |-> IRDA_3PH_MSG1, MSG2 |-> IRDA_3PH_MSG2, MSG5 |-> IRDA_3PH_MSG5,
   MSG6 |-> IRDA_3PH_MSG6, MSG7 |-> IRDA_3PH_MSG7, IR |-> IR_3PH_MSG,
   CMD |-> IRDA_1PH_CMD_STRINGS]

\* "\n** EXPORT DATA **\n"
ExportLabel ==
  <<10, 42, 42, 32, 69, 88, 80, 79, 82, 84, 32, 68, 65, 84, 65, 32, 42, 42, 10>>

\* what Print::println appends to its argument
CRLF == <<13, 10>>

-----------------------------------------------------------------------------
(* Sequences of bytes *)

Min(a, b) == IF a < b THEN a ELSE b

\* C++ s[k], k counted from 0
At(s, k) == s[k + 1]

Take(s, n) == SubSeq(s, 1, Min(n, Len(s)))

Drop(s, n) == SubSeq(s, Min(n, Len(s)) + 1, Len(s))

\* buf[k] = b, k counted from 0
Poke(buf, k, b) == [buf EXCEPT ![k + 1] = b]


-----------------------------------------------------------------------------
(* The history of a call *)

\* One entry of log.  ev is one of
\*   "clear"  clearBuffers drained the receive buffers
\*   "begin"  chan was configured, n = baud rate
\*   "line"   PIN_IRDA_EN was written, en = the new level
\*   "tx"     bytes were written to chan for script step `step`, n = the
\*            length the caller asked to write, en = level of PIN_IRDA_EN
\*   "meter"  the meter put bytes on chan in answer to step `step`
\*   "noise"  stray bytes arrived on chan
\*   "delay"  delay(n)
\*   "rx"     a packet read on chan for step `step` ended with bytes,
\*            n = the number of bytes asked for
Ev(ev, chan, step, bytes, n) ==
  [ev |-> ev, chan |-> chan, step |-> step, bytes |-> bytes, n |-> n,
   en |-> irdaEn]

\* a delay cut to half its length
Delay_half(ms) == Ev("delay", "-", "-", <<>>, ms \div 2)

Delay(ms) == Ev("delay", "-", "-", <<>>, ms)

\* the entries of l of kind ev for step `step`, in order
RECURSIVE Pick(_, _, _)
Pick(l, ev, step) ==
  IF l = <<>> THEN <<>>
  ELSE IF l[1].ev = ev /\ l[1].step = step
         THEN <<l[1]>> \o Pick(Tail(l), ev, step)
         ELSE Pick(Tail(l), ev, step)

\* the entries of l of kind ev, in order
RECURSIVE PickAll(_, _)
PickAll(l, ev) ==
  IF l = <<>> THEN <<>>
  ELSE IF l[1].ev = ev THEN <<l[1]>> \o PickAll(Tail(l), ev)
       ELSE PickAll(Tail(l), ev)

\* the byte strings of a sequence of entries, joined
RECURSIVE JoinBytes(_)
JoinBytes(l) == IF l = <<>> THEN <<>> ELSE l[1].bytes \o JoinBytes(Tail(l))

-----------------------------------------------------------------------------
(* The meter and the line: the environment of the reader *)

Seeds == 1..NumSeeds

\* the n bytes a meter of fill pattern sd answers to step k of a script
MeterBytes(sd, k, n) == [j \in 1..n |-> (41 * sd + 53 * k + j) % 256]

\* A meter stays silent, answers short, in full, or sends more than asked.
AnswerLengths(full) == {0, full - ShortBy, full, full + OverBy}

\* The answers to step k whose full response is `full` bytes.  A command
\* that was not written whole is not a command of the protocol: no answer.
MeterAnswers(k, full, whole) ==
  IF whole THEN {MeterBytes(seed, k, n) : n \in AnswerLengths(full)}
  ELSE {<<>>}

\* stray bytes left in a receive buffer by the time the channel is set up
NoiseChoices == {<<>>, [j \in 1..NoiseLen |-> 170]}

\* HardwareSerial::write(buf, len) reports how many bytes it accepted
WriteOutcomes(length) == {length, length - 1}

\* the channel the meter of a variant is attached to and answers on
MeterChan(t) == IF t \in IR_1PH_RAW..IR_3PH_PARSED THEN "IR" ELSE "IRDA"

-----------------------------------------------------------------------------
(* MeterReader helpers *)

\* readIRDAPacket with `>` for `>=` in its result
readIRDAPacket_strict(expectedBytes) ==
  [data |-> Take(irdaRx, expectedBytes),
   rest |-> Drop(irdaRx, expectedBytes),
   ok   |-> Len(Take(irdaRx, expectedBytes)) > expectedBytes]

\* readIRDAPacket reporting success as soon as anything was received
readIRDAPacket_any(expectedBytes) ==
  [data |-> Take(irdaRx, expectedBytes),
   rest |-> Drop(irdaRx, expectedBytes),
   ok   |-> Len(Take(irdaRx, expectedBytes)) > 0]

\* readIRDAPacket reporting success whatever was received
readIRDAPacket_always(expectedBytes) ==
  [data |-> Take(irdaRx, expectedBytes),
   rest |-> Drop(irdaRx, expectedBytes),
   ok   |-> TRUE]

\* readIRDAPacket(data, expectedBytes): the loop takes one byte at a time
\* from irdaSerial until expectedBytes are collected or the timeout expires;
\* the buffer holds what arrived before the timeout.
readIRDAPacket(expectedBytes) ==
  [data |-> Take(irdaRx, expectedBytes),
   rest |-> Drop(irdaRx, expectedBytes),
   ok   |-> Len(Take(irdaRx, expectedBytes)) >= expectedBytes]

\* readIRPacket(data, expectedBytes): the same loop on irSerial
readIRPacket(expectedBytes) ==
  [data |-> Take(irRx, expectedBytes),
   rest |-> Drop(irRx, expectedBytes),
   ok   |-> Len(Take(irRx, expectedBytes)) >= expectedBytes]

\* setupIRDABaudRate(baud): comm->setupIRDASerial(baud); delay(50)
setupIRDABaudRate(baud) ==
  <<Ev("begin", "IRDA", "-", <<>>, baud), Delay(50), Delay(50)>>

\* setupIRBaudRate(baud): comm->setupIRSerial(baud); delay(50)
setupIRBaudRate(baud) ==
  <<Ev("begin", "IR", "-", <<>>, baud), Delay(50), Delay(50)>>

\* sendIRDACommand(command, length): what goes on the wire of irdaSerial
\* when the driver accepted `written` bytes, and the result (written == length)
sendIRDACommand(step, command, written) ==
  [ev |-> Ev("tx", "IRDA", step, Take(command, written), Len(command)),
   ok |-> written = Len(command)]

\* the String overload writing with print(): the command and nothing else
sendIRDACommandString_bare(step, command) ==
  [ev |-> Ev("tx", "IRDA", step, command, Len(command)),
   ok |-> TRUE]

\* sendIRDACommand(const String&): serial->println(command); return true
sendIRDACommandString(step, command) ==
  [ev |-> Ev("tx", "IRDA", step, command \o CRLF, Len(command)),
   ok |-> TRUE]

\* sendIRCommand(command, length): byte by byte on irSerial, delay(2) after each
RECURSIVE sendIRCommandFrom(_, _, _)
sendIRCommandFrom(step, command, k) ==
  IF k > Len(command) THEN <<>>
  ELSE <<Ev("tx", "IR", step, <<command[k]>>, 1), Delay(2)>>
       \o sendIRCommandFrom(step, command, k + 1)

sendIRCommand(step, command) ==
  [evs |-> sendIRCommandFrom(step, command, 1), ok |-> TRUE]

\* the meter's answer as a log entry and as new content of its channel
MeterEv(step, r) == Ev("meter", MeterChan(type), step, r, Len(r))

\* spliceMsg2 copying from one offset too low
spliceMsg2_shifted(packet) ==
  IF Len(packet) >= 25
    THEN Poke(Poke(Poke(msgs.MSG2, 2, At(packet, 21)), 3, At(packet, 22)),
              4, At(packet, 23))
    ELSE msgs.MSG2

\* msg2 of readMeterIRDA3PH: a copy of IRDA_3PH_MSG2 patched from the handshake
spliceMsg2(packet) ==
  IF Len(packet) >= 25
    THEN Poke(Poke(Poke(msgs.MSG2, 2, At(packet, 22)), 3, At(packet, 23)),
              4, At(packet, 24))
    ELSE msgs.MSG2

\* msg7 of readMeterIRDA3PHHP: a copy of IRDA_3PH_MSG7 patched from the handshake
RECURSIVE spliceLoop(_, _, _)
spliceLoop(buf, packet, k) ==
  IF k >= 8 THEN buf
  ELSE spliceLoop(Poke(buf, 2 + k, At(packet, 32 + k)), packet, k + 1)

spliceMsg7(packet) ==
  IF Len(packet) >= 40 THEN spliceLoop(msgs.MSG7, packet, 0) ELSE msgs.MSG7

\* appendPacket keeping a packet whatever the outcome of its read
appendPacket_always(acc, rd) == acc \o rd.data

\* the 1-phase loop body after the read: responseData += packet on success
appendPacket(acc, rd) == IF rd.ok THEN acc \o rd.data ELSE acc

\* loopStep repeating an iteration that failed
loopStep_retry(k, ok) == IF ok THEN k + 1 ELSE k

\* a for loop that a failed iteration ends
loopStep_stop(k, ok) == IF ok THEN k + 1 ELSE 5

\* the i++ of the 1-phase for loops; ok is the outcome of the iteration
loopStep(k, ok) == k + 1

\* the tag of the step that sends IRDA_1PH_CMD_STRINGS[k]
CmdStep(k) == <<"cmd1", "cmd2", "cmd3", "cmd4", "cmd5">>[k + 1]

\* appendExport keeping the export packet whatever the outcome of its read
appendExport_always(raw, rd) == raw \o ExportLabel \o rd.data

\* readMeterIRDA3PHSolar after the export read:
\* data.rawData += "\n** EXPORT DATA **\n" + packet on success
appendExport(raw, rd) == IF rd.ok THEN raw \o ExportLabel \o rd.data ELSE raw

\* solarMsg of readMeterIRDA3PHSolar: a copy of IRDA_3PH_MSG2, byte 6 = 0x01
solarMsg == Poke(msgs.MSG2, 6, 1)

-----------------------------------------------------------------------------
(* Initial state: the objects as constructed, the pins as after reset *)

FreshData == [rawData |-> <<>>, isValid |-> FALSE, type |-> METER_TYPE_UNKNOWN]

\* a MeterData left over from an earlier successful read
StaleData == [rawData |-> <<1, 2, 3>>, isValid |-> TRUE, type |-> IRDA_3PH_RAW]

\* MeterInfo(), EnergyData(), ElectricalData(), ParsedMeterData(): the record
\* as constructed.  A String is a sequence of bytes, a float a decimal fraction
\* [v, d] (defined with the parser below, zero is [v |-> [hi |-> 0, lo |-> 0],
\* d |-> 0]).
ZeroFloat == [v |-> [hi |-> 0, lo |-> 0], d |-> 0]

MeterInfo ==
  [serialNumber |-> <<>>, manufacturerId |-> <<>>, timestamp |-> <<>>,
   date |-> <<>>, make |-> <<>>, phase |-> 0,
   multiplicationFactor |-> ZeroFloat, mdResetCount |-> 0]

EnergyData ==
  [kwh |-> ZeroFloat, kvah |-> ZeroFloat, kvarh |-> ZeroFloat,
   kvarhLag |-> ZeroFloat, kvarhLead |-> ZeroFloat, kva |-> ZeroFloat,
   powerFactor |-> ZeroFloat, maxDemand |-> ZeroFloat,
   mdTime |-> <<>>, mdDate |-> <<>>]

ElectricalData ==
  [voltageR |-> ZeroFloat, voltageY |-> ZeroFloat, voltageB |-> ZeroFloat,
   currentR |-> ZeroFloat, currentY |-> ZeroFloat, currentB |-> ZeroFloat,
   frequency |-> ZeroFloat, tamperCount |-> 0, tamperStatus |-> 0]

ParsedMeterData ==
  [info |-> MeterInfo, energy |-> EnergyData, electrical |-> ElectricalData,
   isValid |-> FALSE]

\* no call into DataParser
NoArg ==
  [rawData |-> <<>>, isValid |-> FALSE, type |-> METER_TYPE_UNKNOWN,
   digitCount |-> 0]

InitParser ==
  /\ dpc = "idle"
  /\ entry = "none"
  /\ arg = NoArg
  /\ parsed = ParsedMeterData
  /\ success = FALSE
  /\ ran = "none"
  /\ out = <<>>

InitReader ==
  /\ comm = FALSE
  /\ hardware = FALSE
  /\ pc = "idle"
  /\ type = METER_TYPE_UNKNOWN
  /\ data = FreshData
  /\ ret = FALSE
  /\ irdaRx = <<>>
  /\ irRx = <<>>
  /\ irdaEn = FALSE
  /\ irdaBaud = 0
  /\ irBaud = 0
  /\ msgs = ProtocolMessages
  /\ i = 0
  /\ responseData = <<>>
  /\ msg2 = <<>>
  /\ caller = "readMeter"
  /\ seed = 1
  /\ log = <<>>

\* ConfigManager(), config.cpp:9-16: the defaults of config.h:16-20
DefaultConfig ==
  [bluetoothName |-> "PTA-DEFAULT", ssid |-> "Default-WIFI",
   password |-> "password", ipAddress |-> "122.169.206.214", port |-> "3000"]

\* no packet read is in progress
NoRead ==
  [pc |-> "idle", expectedBytes |-> 0, timeoutMs |-> 0, elapsed |-> 0,
   data |-> <<>>, endless |-> FALSE, supply |-> 0, ok |-> FALSE]

POWER_ACTIVE == 0
POWER_IDLE == 1
POWER_PREPARING_SLEEP == 2
POWER_DEEP_SLEEP == 3

SLEEP_TIMEOUT_MS == 210000
BUTTON_DEBOUNCE_MS == 2000

\* PowerManager::PowerManager() and BatteryInfo(), power_management.h:33-43,
\* 134-141.  sleepTimer is an unsigned long: [hi, lo] as in U32 below.
NewPowerManager ==
  [hardware |-> FALSE,
   sleepTimer |-> [hi |-> 0, lo |-> 0],
   lastActivityTime |-> 0,
   sleepTimeoutMs |-> SLEEP_TIMEOUT_MS,
   currentState |-> POWER_ACTIVE,
   buttonPressStartTime |-> 0,
   buttonCurrentlyPressed |-> FALSE,
   buttonLongPressDetected |-> FALSE,
   battery |-> [levelPercent |-> 0, isLow |-> FALSE, lastUpdateTime |-> 0],
   batteryUpdateInterval |-> 30000,
   initialized |-> FALSE,
   asleep |-> FALSE]

\* OTAManager::OTAManager(); result is what the last performUpdate returned,
\* flash the image in the boot partition and running the image that runs,
\* wifiMode and wifiLink the mode of the WiFi interface and whether it is
\* connected to an access point
NewOTAManager ==
  [updateInProgress |-> FALSE, result |-> "none", flash |-> "old",
   running |-> "old", wifiMode |-> "WIFI_OFF", wifiLink |-> FALSE]

\* the device has booted: the objects are as constructed
InitDevice ==
  /\ pktRead = NoRead
  /\ millis = 0
  /\ powerMgr = NewPowerManager
  /\ ota = NewOTAManager
  /\ led = FALSE
  /\ handledAt = -1

\* no command has been received, the ConfigManager is as constructed
InitCommand ==
  /\ bleCommand = ""
  /\ printed = <<>>
  /\ config = DefaultConfig
  /\ InitDevice
  /\ btRx = ""
  /\ arrived = ""
  /\ delivered = ""

\* and nothing is stored in the preferences
InitMain ==
  /\ InitCommand
  /\ preferences = <<>>

Init ==
  /\ InitReader
  /\ parserComm = FALSE
  /\ InitParser
  /\ InitMain

(* ConfigManager, config.cpp *)

\* the ConfigManager of main.cpp
Manager == [config |-> config, preferences |-> preferences]

MAX_BT_NAME_LENGTH == 20

\* String::substring(from): the text from the 0-based position `from` on
substringFrom(str, from) ==
  IF from >= Len(str) THEN "" ELSE SubSeq(str, from + 1, Len(str))

\* the character at the 0-based position k
charAt(str, k) == SubSeq(str, k + 1, k + 1)

DecimalDigits == <<"0", "1", "2", "3", "4", "5", "6", "7", "8", "9">>

isDigit(c) == \E d \in DOMAIN DecimalDigits : DecimalDigits[d] = c

\* String::toInt: the number the leading digits spell, 0 if there are none
RECURSIVE toIntFrom(_, _, _)
toIntFrom(str, k, acc) ==
  IF k >= Len(str) \/ ~isDigit(charAt(str, k)) THEN acc
  ELSE toIntFrom(str, k + 1,
         acc * 10
           + (CHOOSE d \in DOMAIN DecimalDigits :
                DecimalDigits[d] = charAt(str, k)) - 1)

toInt(str) == toIntFrom(str, 0, 0)

\* the validators, config.cpp:138-168
isValidBluetoothName(name) == Len(name) > 0 /\ Len(name) < MAX_BT_NAME_LENGTH

isValidSSID(ssid) == Len(ssid) > 0 /\ Len(ssid) <= 32

isValidIP(ip) ==
  /\ Len(ip) # 0
  /\ \A k \in 0..(Len(ip) - 1) : charAt(ip, k) = "." \/ isDigit(charAt(ip, k))
  /\ Cardinality({k \in 0..(Len(ip) - 1) : charAt(ip, k) = "."}) = 3

isValidPort(port) ==
  Len(port) # 0 /\ toInt(port) > 0 /\ toInt(port) <= 65535

\* Preferences::putString and getString on the namespace "credentials": the
\* store is a function from the keys that were written to their values
putString(p, key, value) ==
  [k \in DOMAIN p \cup {key} |-> IF k = key THEN value ELSE p[k]]

getString(p, key, defaultValue) ==
  IF key \in DOMAIN p THEN p[key] ELSE defaultValue

\* The ConfigManager is m = [config, preferences]: the SystemConfig in memory
\* and the store.
\* ConfigManager::loadAll(), config.cpp:28-54: what is stored, and the default
\* for every value that is missing or not valid
loadAll(m) ==
  LET bluetoothName == getString(m.preferences, "blename",
                                 DefaultConfig.bluetoothName)
      ssid == getString(m.preferences, "ssid", DefaultConfig.ssid)
      password == getString(m.preferences, "password", DefaultConfig.password)
      ipAddress == getString(m.preferences, "ipaddress",
                             DefaultConfig.ipAddress)
      port == getString(m.preferences, "port", DefaultConfig.port)
  IN [m EXCEPT !.config =
        [bluetoothName |-> IF isValidBluetoothName(bluetoothName)
                           THEN bluetoothName ELSE DefaultConfig.bluetoothName,
         ssid |-> IF isValidSSID(ssid) THEN ssid ELSE DefaultConfig.ssid,
         password |-> IF Len(password) = 0 THEN DefaultConfig.password
                      ELSE password,
         ipAddress |-> IF isValidIP(ipAddress) THEN ipAddress
                       ELSE DefaultConfig.ipAddress,
         port |-> IF isValidPort(port) THEN port ELSE DefaultConfig.port]]

\* ConfigManager::saveAll(), config.cpp:56-64
saveAll(m) ==
  [m EXCEPT !.preferences =
     putString(putString(putString(putString(putString(@,
       "blename", m.config.bluetoothName),
       "ssid", m.config.ssid),
       "password", m.config.password),
       "ipaddress", m.config.ipAddress),
       "port", m.config.port)]

\* ConfigManager::resetToDefaults(), config.cpp:126-135
resetToDefaults(m) == saveAll([m EXCEPT !.config = DefaultConfig])

\* ConfigManager::update*, config.cpp:66-114: the value is put in memory and
\* in the store when it is valid, both are left alone when it is not
updateBluetoothName(m, name) ==
  IF isValidBluetoothName(name)
    THEN [config |-> [m.config EXCEPT !.bluetoothName = name],
          preferences |-> putString(m.preferences, "blename", name)]
    ELSE m

updateSSID(m, ssid) ==
  IF isValidSSID(ssid)
    THEN [config |-> [m.config EXCEPT !.ssid = ssid],
          preferences |-> putString(m.preferences, "ssid", ssid)]
    ELSE m

updatePassword(m, password) ==
  IF Len(password) > 0
    THEN [config |-> [m.config EXCEPT !.password = password],
          preferences |-> putString(m.preferences, "password", password)]
    ELSE m

updateIPAddress(m, ip) ==
  IF isValidIP(ip)
    THEN [config |-> [m.config EXCEPT !.ipAddress = ip],
          preferences |-> putString(m.preferences, "ipaddress", ip)]
    ELSE m

\* updatePort that stores whatever it is given
updatePort_unchecked(m, port) ==
  [config |-> [m.config EXCEPT !.port = port],
   preferences |-> putString(m.preferences, "port", port)]

updatePort(m, port) ==
  IF isValidPort(port)
    THEN [config |-> [m.config EXCEPT !.port = port],
          preferences |-> putString(m.preferences, "port", port)]
    ELSE m

\* setup(): config.loadAll() reads the store, hardware.init() enables the front
\* end, comm.init() configures both channels, the modules are wired,
\* initializeIRDA() ends at 9600 baud, enabled
setup ==
  /\ pc = "idle"
  /\ ~comm
  /\ comm' = TRUE
  /\ hardware' = TRUE
  /\ irdaEn' = TRUE
  /\ irdaBaud' = BAUD_RATE_9600
  /\ irBaud' = BAUD_RATE_2400
  /\ parserComm' = TRUE
  /\ config' = loadAll(Manager).config
  /\ UNCHANGED <<bleCommand, printed, preferences, deviceVars, bleVars>>
  /\ UNCHANGED parserVars
  /\ UNCHANGED <<pc, type, data, ret, irdaRx, irRx, msgs, i, responseData,
                 msg2, caller, seed, log>>


-----------------------------------------------------------------------------
(* MeterReader::readMeter and the protocol readers *)

\* a log entry of PIN_IRDA_EN that shows it low whatever was written
Line_low(level) == [Ev("line", "IRDA", "-", <<>>, 0) EXCEPT !.en = FALSE]

\* hardware->enableIRDA() / disableIRDA() as a log entry
Line(level) == [Ev("line", "IRDA", "-", <<>>, 0) EXCEPT !.en = level]

\* Dispatch with a default that falls into the first case
Dispatch_fallthrough(t) ==
  CASE t \in {IRDA_1PH_RAW, IRDA_1PH_PARSED} -> "IRDA1PH"
    [] t \in {IRDA_3PH_RAW, IRDA_3PH_PARSED} -> "IRDA3PH"
    [] t \in {IRDA_3PH_14HP, IRDA_3PH_13HP} -> "IRDA3PHHP"
    [] t \in {IRDA_3PH_SOLAR_RAW, IRDA_3PH_SOLAR_PARSED} -> "IRDA3PHSolar"
    [] t \in {IR_1PH_RAW, IR_1PH_PARSED} -> "IR1PH"
    [] t \in {IR_3PH_RAW, IR_3PH_PARSED} -> "IR3PH"
    [] OTHER -> "IRDA1PH"

\* the case of readMeter's switch that `t` selects
Dispatch(t) ==
  CASE t \in {IRDA_1PH_RAW, IRDA_1PH_PARSED} -> "IRDA1PH"
    [] t \in {IRDA_3PH_RAW, IRDA_3PH_PARSED} -> "IRDA3PH"
    [] t \in {IRDA_3PH_14HP, IRDA_3PH_13HP} -> "IRDA3PHHP"
    [] t \in {IRDA_3PH_SOLAR_RAW, IRDA_3PH_SOLAR_PARSED} -> "IRDA3PHSolar"
    [] t \in {IR_1PH_RAW, IR_1PH_PARSED} -> "IR1PH"
    [] t \in {IR_3PH_RAW, IR_3PH_PARSED} -> "IR3PH"
    [] OTHER -> "default"

\* readMeter(type, data) up to the call of the protocol reader: data.type and
\* data.isValid are set, the dependencies checked, the buffers cleared, the
\* switch taken.  `prior` is the MeterData the caller passes in, sd the fill
\* pattern of the meter in front of the device.
readMeter(t, prior, sd) ==
  /\ pc = "idle"
  /\ type' = t
  /\ data' = [prior EXCEPT !.type = t, !.isValid = FALSE]
  /\ seed' = sd
  /\ i' = 0
  /\ responseData' = <<>>
  /\ msg2' = <<>>
  /\ caller' = IF Dispatch(t) = "IRDA3PHSolar" THEN "solar" ELSE "readMeter"
  /\ IF ~comm \/ ~hardware
       THEN /\ ret' = FALSE
            /\ pc' = "done"
            /\ log' = <<>>
            /\ UNCHANGED <<irdaRx, irRx, btRx>>
       ELSE /\ irdaRx' = <<>>
            /\ irRx' = <<>>
            /\ btRx' = ""
            /\ log' = <<Ev("clear", "-", "-", <<>>, 0)>>
            /\ ret' = FALSE
            /\ pc' = IF Dispatch(t) = "default" THEN "done"
                     ELSE IF Dispatch(t) = "IRDA3PHSolar" THEN "IRDA3PH"
                     ELSE Dispatch(t)
  /\ UNCHANGED decoderVars
  /\ UNCHANGED <<comm, hardware, irdaEn, irdaBaud, irBaud, msgs>>

\* The caller has taken the result and its MeterData and the locals of the
\* call go out of scope; the channels, the enable line and the static arrays
\* stay as the call left them.  The device is ready for the next command.
return ==
  /\ pc = "done"
  /\ pc' = "idle"
  /\ type' = METER_TYPE_UNKNOWN
  /\ data' = FreshData
  /\ ret' = FALSE
  /\ i' = 0
  /\ responseData' = <<>>
  /\ msg2' = <<>>
  /\ caller' = "readMeter"
  /\ seed' = 1
  /\ log' = <<>>
  /\ UNCHANGED <<decoderVars, mainVars>>
  /\ UNCHANGED <<comm, hardware, irdaRx, irRx, irdaEn, irdaBaud, irBaud, msgs>>

---- (* readMeterIRDA1PH, meter_reader.h:202-236 *)

readMeterIRDA1PH_setup ==
  /\ pc = "IRDA1PH"
  /\ \E nz \in NoiseChoices :
       /\ irdaRx' = irdaRx \o nz
       /\ log' = log \o setupIRDABaudRate(BAUD_RATE_2400)
                     \o (IF nz = <<>> THEN <<>>
                         ELSE <<Ev("noise", "IRDA", "-", nz, Len(nz))>>)
                     \o <<Line(FALSE)>>
  /\ irdaBaud' = BAUD_RATE_2400
  /\ irdaEn' = FALSE
  /\ responseData' = <<>>
  /\ i' = 0
  /\ pc' = "IRDA1PH_send"
  /\ UNCHANGED <<decoderVars, mainVars>>
  /\ UNCHANGED <<comm, hardware, type, data, ret, irRx, irBaud, msgs, msg2,
                 caller, seed>>

\* loop body up to delay(200): the String overload always reports success
readMeterIRDA1PH_send ==
  /\ pc = "IRDA1PH_send"
  /\ LET snd == sendIRDACommandString(CmdStep(i), msgs.CMD[i + 1])
     IN \E r \in MeterAnswers(i + 1, 30, snd.ok) :
          /\ irdaRx' = irdaRx \o r
          /\ log' = log \o <<snd.ev, MeterEv(CmdStep(i), r)>>
                        \o (IF snd.ok THEN <<Delay(200)>> ELSE <<>>)
          /\ i' = IF snd.ok THEN i ELSE loopStep(i, FALSE)
          /\ pc' = IF snd.ok THEN "IRDA1PH_read"
                   ELSE IF loopStep(i, FALSE) < 5 THEN "IRDA1PH_send"
                   ELSE "IRDA1PH_end"
  /\ UNCHANGED <<decoderVars, mainVars>>
  /\ UNCHANGED <<comm, hardware, type, data, ret, irRx, irdaEn, irdaBaud,
                 irBaud, msgs, responseData, msg2, caller, seed>>

\* readIRDAPacket(packet, 30) and the append; then i++
readMeterIRDA1PH_read ==
  /\ pc = "IRDA1PH_read"
  /\ LET rd == readIRDAPacket(30)
     IN /\ irdaRx' = rd.rest
        /\ log' = log \o <<Ev("rx", "IRDA", CmdStep(i), rd.data, 30)>>
        /\ responseData' = appendPacket(responseData, rd)
        /\ i' = loopStep(i, rd.ok)
        /\ pc' = IF loopStep(i, rd.ok) < 5 THEN "IRDA1PH_send"
                 ELSE "IRDA1PH_end"
  /\ UNCHANGED <<decoderVars, mainVars>>
  /\ UNCHANGED <<comm, hardware, type, data, ret, irRx, irdaEn, irdaBaud,
                 irBaud, msgs, msg2, caller, seed>>

\* after the loop: enableIRDA, the validity check, return to readMeter
readMeterIRDA1PH_end ==
  /\ pc = "IRDA1PH_end"
  /\ irdaEn' = TRUE
  /\ log' = log \o <<Line(TRUE)>>
  /\ IF Len(responseData) > 0
       THEN /\ data' = [data EXCEPT !.rawData = responseData, !.isValid = TRUE]
            /\ ret' = TRUE
       ELSE /\ data' = data
            /\ ret' = FALSE
  /\ pc' = "done"
  /\ UNCHANGED <<decoderVars, mainVars>>
  /\ UNCHANGED <<comm, hardware, type, irdaRx, irRx, irdaBaud, irBaud, msgs,
                 i, responseData, msg2, caller, seed>>


---- (* readMeterIRDA3PH, meter_reader.h:238-275 *)

readMeterIRDA3PH_setup ==
  /\ pc = "IRDA3PH"
  /\ \E nz \in NoiseChoices :
       /\ irdaRx' = irdaRx \o nz
       /\ log' = log \o setupIRDABaudRate(BAUD_RATE_9600)
                     \o (IF nz = <<>> THEN <<>>
                         ELSE <<Ev("noise", "IRDA", "-", nz, Len(nz))>>)
                     \o <<Line(FALSE)>>
  /\ irdaBaud' = BAUD_RATE_9600
  /\ irdaEn' = FALSE
  /\ pc' = "IRDA3PH_handshake"
  /\ UNCHANGED <<decoderVars, mainVars>>
  /\ UNCHANGED <<comm, hardware, type, data, ret, irRx, irBaud, msgs, i,
                 responseData, msg2, caller, seed>>

\* sendIRDACommand(IRDA_3PH_MSG1, 11)
readMeterIRDA3PH_handshake ==
  /\ pc = "IRDA3PH_handshake"
  /\ \E written \in WriteOutcomes(Len(msgs.MSG1)) :
       LET snd == sendIRDACommand("handshake", msgs.MSG1, written)
       IN \E r \in MeterAnswers(1, 30, snd.ok) :
            /\ irdaRx' = irdaRx \o r
            /\ log' = log \o <<snd.ev, MeterEv("handshake", r)>>
            /\ pc' = IF snd.ok THEN "IRDA3PH_handshakeRead" ELSE "IRDA3PH_end"
  /\ UNCHANGED <<decoderVars, mainVars>>
  /\ UNCHANGED <<comm, hardware, type, data, ret, irRx, irdaEn, irdaBaud,
                 irBaud, msgs, i, responseData, msg2, caller, seed>>

\* readIRDAPacket(packet, 30); on success msg2 is built and delay(1500) waited
readMeterIRDA3PH_handshakeRead ==
  /\ pc = "IRDA3PH_handshakeRead"
  /\ LET rd == readIRDAPacket(30)
     IN /\ irdaRx' = rd.rest
        /\ log' = log \o <<Ev("rx", "IRDA", "handshake", rd.data, 30)>>
                      \o (IF rd.ok THEN <<Delay(1500)>> ELSE <<>>)
        /\ msg2' = IF rd.ok THEN spliceMsg2(rd.data) ELSE msg2
        /\ pc' = IF rd.ok THEN "IRDA3PH_second" ELSE "IRDA3PH_end"
  /\ UNCHANGED <<decoderVars, mainVars>>
  /\ UNCHANGED <<comm, hardware, type, data, ret, irRx, irdaEn, irdaBaud,
                 irBaud, msgs, i, responseData, caller, seed>>

\* sendIRDACommand(msg2, 11)
readMeterIRDA3PH_second ==
  /\ pc = "IRDA3PH_second"
  /\ \E written \in WriteOutcomes(Len(msg2)) :
       LET snd == sendIRDACommand("second", msg2, written)
       IN \E r \in MeterAnswers(2, 79, snd.ok) :
            /\ irdaRx' = irdaRx \o r
            /\ log' = log \o <<snd.ev, MeterEv("second", r)>>
            /\ pc' = IF snd.ok THEN "IRDA3PH_finalRead" ELSE "IRDA3PH_end"
  /\ UNCHANGED <<decoderVars, mainVars>>
  /\ UNCHANGED <<comm, hardware, type, data, ret, irRx, irdaEn, irdaBaud,
                 irBaud, msgs, i, responseData, msg2, caller, seed>>

\* readIRDAPacket(finalPacket, 79)
readMeterIRDA3PH_finalRead ==
  /\ pc = "IRDA3PH_finalRead"
  /\ LET rd == readIRDAPacket(79)
     IN /\ irdaRx' = rd.rest
        /\ log' = log \o <<Ev("rx", "IRDA", "second", rd.data, 79)>>
        /\ data' = IF rd.ok
                     THEN [data EXCEPT !.rawData = rd.data, !.isValid = TRUE]
                     ELSE data
  /\ pc' = "IRDA3PH_end"
  /\ UNCHANGED <<decoderVars, mainVars>>
  /\ UNCHANGED <<comm, hardware, type, ret, irRx, irdaEn, irdaBaud, irBaud,
                 msgs, i, responseData, msg2, caller, seed>>

\* enableIRDA(); return data.isValid, to readMeter or to readMeterIRDA3PHSolar.
\* In readMeterIRDA3PHSolar a false result returns false at once; otherwise
\* solarMsg is built.
readMeterIRDA3PH_end ==
  /\ pc = "IRDA3PH_end"
  /\ irdaEn' = TRUE
  /\ log' = log \o <<Line(TRUE)>>
  /\ IF caller = "solar" /\ data.isValid
       THEN /\ msg2' = solarMsg
            /\ ret' = ret
            /\ pc' = "IRDA3PHSolar_send"
       ELSE /\ msg2' = msg2
            /\ ret' = data.isValid
            /\ pc' = "done"
  /\ UNCHANGED <<decoderVars, mainVars>>
  /\ UNCHANGED <<comm, hardware, type, data, irdaRx, irRx, irdaBaud, irBaud,
                 msgs, i, responseData, caller, seed>>

---- (* readMeterIRDA3PHSolar, meter_reader.h:316-339 *)

\* sendIRDACommand(solarMsg, 11)
readMeterIRDA3PHSolar_send ==
  /\ pc = "IRDA3PHSolar_send"
  /\ \E written \in WriteOutcomes(Len(msg2)) :
       LET snd == sendIRDACommand("export", msg2, written)
       IN \E r \in MeterAnswers(3, 79, snd.ok) :
            /\ irdaRx' = irdaRx \o r
            /\ log' = log \o <<snd.ev, MeterEv("export", r)>>
            /\ ret' = IF snd.ok THEN ret ELSE data.isValid
            /\ pc' = IF snd.ok THEN "IRDA3PHSolar_read" ELSE "done"
  /\ UNCHANGED <<decoderVars, mainVars>>
  /\ UNCHANGED <<comm, hardware, type, data, irRx, irdaEn, irdaBaud, irBaud,
                 msgs, i, responseData, msg2, caller, seed>>

\* readIRDAPacket(packet, 79); the labelled append; return data.isValid
readMeterIRDA3PHSolar_read ==
  /\ pc = "IRDA3PHSolar_read"
  /\ LET rd == readIRDAPacket(79)
     IN /\ irdaRx' = rd.rest
        /\ log' = log \o <<Ev("rx", "IRDA", "export", rd.data, 79)>>
        /\ data' = [data EXCEPT !.rawData = appendExport(data.rawData, rd)]
  /\ ret' = data.isValid
  /\ pc' = "done"
  /\ UNCHANGED <<decoderVars, mainVars>>
  /\ UNCHANGED <<comm, hardware, type, irRx, irdaEn, irdaBaud, irBaud, msgs,
                 i, responseData, msg2, caller, seed>>

---- (* readMeterIRDA3PHHP, meter_reader.h:277-314 *)

readMeterIRDA3PHHP_setup ==
  /\ pc = "IRDA3PHHP"
  /\ \E nz \in NoiseChoices :
       /\ irdaRx' = irdaRx \o nz
       /\ log' = log \o setupIRDABaudRate(BAUD_RATE_9600)
                     \o (IF nz = <<>> THEN <<>>
                         ELSE <<Ev("noise", "IRDA", "-", nz, Len(nz))>>)
                     \o <<Line(FALSE)>>
  /\ irdaBaud' = BAUD_RATE_9600
  /\ irdaEn' = FALSE
  /\ pc' = "IRDA3PHHP_handshake"
  /\ UNCHANGED <<decoderVars, mainVars>>
  /\ UNCHANGED <<comm, hardware, type, data, ret, irRx, irBaud, msgs, i,
                 responseData, msg2, caller, seed>>

\* sendIRDACommand(IRDA_3PH_MSG6, 16)
readMeterIRDA3PHHP_handshake ==
  /\ pc = "IRDA3PHHP_handshake"
  /\ \E written \in WriteOutcomes(Len(msgs.MSG6)) :
       LET snd == sendIRDACommand("handshake", msgs.MSG6, written)
       IN \E r \in MeterAnswers(1, 45, snd.ok) :
            /\ irdaRx' = irdaRx \o r
            /\ log' = log \o <<snd.ev, MeterEv("handshake", r)>>
            /\ pc' = IF snd.ok THEN "IRDA3PHHP_handshakeRead"
                     ELSE "IRDA3PHHP_end"
  /\ UNCHANGED <<decoderVars, mainVars>>
  /\ UNCHANGED <<comm, hardware, type, data, ret, irRx, irdaEn, irdaBaud,
                 irBaud, msgs, i, responseData, msg2, caller, seed>>

\* readIRDAPacket(packet, 45); on success msg7 is built and delay(1500) waited
readMeterIRDA3PHHP_handshakeRead ==
  /\ pc = "IRDA3PHHP_handshakeRead"
  /\ LET rd == readIRDAPacket(45)
     IN /\ irdaRx' = rd.rest
        /\ log' = log \o <<Ev("rx", "IRDA", "handshake", rd.data, 45)>>
                      \o (IF rd.ok THEN <<Delay(1500)>> ELSE <<>>)
        /\ msg2' = IF rd.ok THEN spliceMsg7(rd.data) ELSE msg2
        /\ pc' = IF rd.ok THEN "IRDA3PHHP_second" ELSE "IRDA3PHHP_end"
  /\ UNCHANGED <<decoderVars, mainVars>>
  /\ UNCHANGED <<comm, hardware, type, data, ret, irRx, irdaEn, irdaBaud,
                 irBaud, msgs, i, responseData, caller, seed>>

\* sendIRDACommand(msg7, 16)
readMeterIRDA3PHHP_second ==
  /\ pc = "IRDA3PHHP_second"
  /\ \E written \in WriteOutcomes(Len(msg2)) :
       LET snd == sendIRDACommand("second", msg2, written)
       IN \E r \in MeterAnswers(2, 71, snd.ok) :
            /\ irdaRx' = irdaRx \o r
            /\ log' = log \o <<snd.ev, MeterEv("second", r)>>
            /\ pc' = IF snd.ok THEN "IRDA3PHHP_finalRead" ELSE "IRDA3PHHP_end"
  /\ UNCHANGED <<decoderVars, mainVars>>
  /\ UNCHANGED <<comm, hardware, type, data, ret, irRx, irdaEn, irdaBaud,
                 irBaud, msgs, i, responseData, msg2, caller, seed>>

\* readIRDAPacket(finalPacket, 71)
readMeterIRDA3PHHP_finalRead ==
  /\ pc = "IRDA3PHHP_finalRead"
  /\ LET rd == readIRDAPacket(71)
     IN /\ irdaRx' = rd.rest
        /\ log' = log \o <<Ev("rx", "IRDA", "second", rd.data, 71)>>
        /\ data' = IF rd.ok
                     THEN [data EXCEPT !.rawData = rd.data, !.isValid = TRUE]
                     ELSE data
  /\ pc' = "IRDA3PHHP_end"
  /\ UNCHANGED <<decoderVars, mainVars>>
  /\ UNCHANGED <<comm, hardware, type, ret, irRx, irdaEn, irdaBaud, irBaud,
                 msgs, i, responseData, msg2, caller, seed>>

\* enableIRDA(); return data.isValid
readMeterIRDA3PHHP_end ==
  /\ pc = "IRDA3PHHP_end"
  /\ irdaEn' = TRUE
  /\ log' = log \o <<Line(TRUE)>>
  /\ ret' = data.isValid
  /\ pc' = "done"
  /\ UNCHANGED <<decoderVars, mainVars>>
  /\ UNCHANGED <<comm, hardware, type, data, irdaRx, irRx, irdaBaud, irBaud,
                 msgs, i, responseData, msg2, caller, seed>>


---- (* readMeterIR1PH, meter_reader.h:341-367 *)

readMeterIR1PH_setup ==
  /\ pc = "IR1PH"
  /\ \E nz \in NoiseChoices :
       /\ irRx' = irRx \o nz
       /\ log' = log \o setupIRBaudRate(BAUD_RATE_2400)
                     \o (IF nz = <<>> THEN <<>>
                         ELSE <<Ev("noise", "IR", "-", nz, Len(nz))>>)
  /\ irBaud' = BAUD_RATE_2400
  /\ responseData' = <<>>
  /\ i' = 0
  /\ pc' = "IR1PH_send"
  /\ UNCHANGED <<decoderVars, mainVars>>
  /\ UNCHANGED <<comm, hardware, type, data, ret, irdaRx, irdaEn, irdaBaud,
                 msgs, msg2, caller, seed>>

\* loop body up to delay(200): the command goes out through sendIRDACommand,
\* that is on irdaSerial; the meter of this variant answers on irSerial
readMeterIR1PH_send ==
  /\ pc = "IR1PH_send"
  /\ LET snd == sendIRDACommandString(CmdStep(i), msgs.CMD[i + 1])
     IN \E r \in MeterAnswers(i + 1, 30, snd.ok) :
          /\ irRx' = irRx \o r
          /\ log' = log \o <<snd.ev, MeterEv(CmdStep(i), r)>>
                        \o (IF snd.ok THEN <<Delay(200)>> ELSE <<>>)
          /\ i' = IF snd.ok THEN i ELSE loopStep(i, FALSE)
          /\ pc' = IF snd.ok THEN "IR1PH_read"
                   ELSE IF loopStep(i, FALSE) < 5 THEN "IR1PH_send"
                   ELSE "IR1PH_end"
  /\ UNCHANGED <<decoderVars, mainVars>>
  /\ UNCHANGED <<comm, hardware, type, data, ret, irdaRx, irdaEn, irdaBaud,
                 irBaud, msgs, responseData, msg2, caller, seed>>

\* readIRPacket(packet, 30) and the append; then i++
readMeterIR1PH_read ==
  /\ pc = "IR1PH_read"
  /\ LET rd == readIRPacket(30)
     IN /\ irRx' = rd.rest
        /\ log' = log \o <<Ev("rx", "IR", CmdStep(i), rd.data, 30)>>
        /\ responseData' = appendPacket(responseData, rd)
        /\ i' = loopStep(i, rd.ok)
        /\ pc' = IF loopStep(i, rd.ok) < 5 THEN "IR1PH_send" ELSE "IR1PH_end"
  /\ UNCHANGED <<decoderVars, mainVars>>
  /\ UNCHANGED <<comm, hardware, type, data, ret, irdaRx, irdaEn, irdaBaud,
                 irBaud, msgs, msg2, caller, seed>>

\* after the loop: the validity check, return to readMeter
readMeterIR1PH_end ==
  /\ pc = "IR1PH_end"
  /\ IF Len(responseData) > 0
       THEN /\ data' = [data EXCEPT !.rawData = responseData, !.isValid = TRUE]
            /\ ret' = TRUE
       ELSE /\ data' = data
            /\ ret' = FALSE
  /\ pc' = "done"
  /\ UNCHANGED <<decoderVars, mainVars>>
  /\ UNCHANGED <<comm, hardware, type, irdaRx, irRx, irdaEn, irdaBaud, irBaud,
                 msgs, i, responseData, msg2, caller, seed, log>>

---- (* readMeterIR3PH, meter_reader.h:369-385 *)

readMeterIR3PH_setup ==
  /\ pc = "IR3PH"
  /\ \E nz \in NoiseChoices :
       /\ irRx' = irRx \o nz
       /\ log' = log \o setupIRBaudRate(BAUD_RATE_2400)
                     \o (IF nz = <<>> THEN <<>>
                         ELSE <<Ev("noise", "IR", "-", nz, Len(nz))>>)
  /\ irBaud' = BAUD_RATE_2400
  /\ pc' = "IR3PH_send"
  /\ UNCHANGED <<decoderVars, mainVars>>
  /\ UNCHANGED <<comm, hardware, type, data, ret, irdaRx, irdaEn, irdaBaud,
                 msgs, i, responseData, msg2, caller, seed>>

\* sendIRCommand(IR_3PH_MSG, 5); delay(500)
readMeterIR3PH_send ==
  /\ pc = "IR3PH_send"
  /\ LET snd == sendIRCommand("irfixed", msgs.IR)
     IN \E r \in MeterAnswers(1, 50, snd.ok) :
          /\ irRx' = irRx \o r
          /\ log' = log \o snd.evs \o <<MeterEv("irfixed", r)>>
                        \o (IF snd.ok THEN <<Delay(500)>> ELSE <<>>)
          /\ ret' = FALSE
          /\ pc' = IF snd.ok THEN "IR3PH_read" ELSE "done"
  /\ UNCHANGED <<decoderVars, mainVars>>
  /\ UNCHANGED <<comm, hardware, type, data, irdaRx, irdaEn, irdaBaud, irBaud,
                 msgs, i, responseData, msg2, caller, seed>>

\* readIRPacket(packet, 50); the validity check, return to readMeter
readMeterIR3PH_read ==
  /\ pc = "IR3PH_read"
  /\ LET rd == readIRPacket(50)
     IN /\ irRx' = rd.rest
        /\ log' = log \o <<Ev("rx", "IR", "irfixed", rd.data, 50)>>
        /\ data' = IF rd.ok
                     THEN [data EXCEPT !.rawData = rd.data, !.isValid = TRUE]
                     ELSE data
        /\ ret' = rd.ok
  /\ pc' = "done"
  /\ UNCHANGED <<decoderVars, mainVars>>
  /\ UNCHANGED <<comm, hardware, type, irdaRx, irdaEn, irdaBaud, irBaud, msgs,
                 i, responseData, msg2, caller, seed>>

-----------------------------------------------------------------------------
(* The reader as a state machine *)

Priors == {FreshData, StaleData}

---- (* testIRDAConnection, testIRConnection, meter_reader.h:469-490 *)

\* testIRDAConnection(): the first 1-phase command goes out through the
\* String overload with the front end disabled; `written` is what println
\* reports, which the overload does not look at.  No read follows.
testIRDAConnection(written) ==
  /\ pc = "idle"
  /\ comm /\ hardware
  /\ LET snd == sendIRDACommandString("test", msgs.CMD[1])
     IN /\ log' = setupIRDABaudRate(BAUD_RATE_2400)
                    \o <<Line(FALSE),
                         [snd.ev EXCEPT !.bytes = Take(@, written),
                                        !.n = Len(snd.ev.bytes),
                                        !.en = FALSE],
                         Line(TRUE)>>
        /\ ret' = snd.ok
  /\ irdaBaud' = BAUD_RATE_2400
  /\ irdaEn' = TRUE
  /\ pc' = "tested"
  /\ UNCHANGED <<decoderVars, mainVars>>
  /\ UNCHANGED <<comm, hardware, type, data, irdaRx, irRx, irBaud, msgs, i,
                 responseData, msg2, caller, seed>>

\* testIRConnection(): the infrared fixed command goes out byte by byte; the
\* driver took the first `written` bytes, which sendIRCommand does not look at
testIRConnection(written) ==
  /\ pc = "idle"
  /\ comm /\ hardware
  /\ LET snd == sendIRCommand("test", Take(msgs.IR, written))
     IN /\ log' = setupIRBaudRate(BAUD_RATE_2400) \o snd.evs
        /\ ret' = snd.ok
  /\ irBaud' = BAUD_RATE_2400
  /\ pc' = "tested"
  /\ UNCHANGED <<decoderVars, mainVars>>
  /\ UNCHANGED <<comm, hardware, type, data, irdaRx, irRx, irdaEn, irdaBaud,
                 msgs, i, responseData, msg2, caller, seed>>

\* the caller has taken the result of the test
tested ==
  /\ pc = "tested"
  /\ pc' = "idle"
  /\ ret' = FALSE
  /\ log' = <<>>
  /\ UNCHANGED <<decoderVars, mainVars>>
  /\ UNCHANGED <<comm, hardware, type, data, irdaRx, irRx, irdaEn, irdaBaud,
                 irBaud, msgs, i, responseData, msg2, caller, seed>>

Next ==
  \/ setup
  \/ \E written \in WriteOutcomes(Len(msgs.CMD[1] \o CRLF)) :
       testIRDAConnection(written)
  \/ \E written \in WriteOutcomes(Len(msgs.IR)) : testIRConnection(written)
  \/ tested
  \/ \E t \in MeterTypes, prior \in Priors, sd \in Seeds :
       readMeter(t, prior, sd) /\ UNCHANGED mainRest
  \/ return
  \/ readMeterIRDA1PH_setup
  \/ readMeterIRDA1PH_send
  \/ readMeterIRDA1PH_read
  \/ readMeterIRDA1PH_end
  \/ readMeterIRDA3PH_setup
  \/ readMeterIRDA3PH_handshake
  \/ readMeterIRDA3PH_handshakeRead
  \/ readMeterIRDA3PH_second
  \/ readMeterIRDA3PH_finalRead
  \/ readMeterIRDA3PH_end
  \/ readMeterIRDA3PHSolar_send
  \/ readMeterIRDA3PHSolar_read
  \/ readMeterIRDA3PHHP_setup
  \/ readMeterIRDA3PHHP_handshake
  \/ readMeterIRDA3PHHP_handshakeRead
  \/ readMeterIRDA3PHHP_second
  \/ readMeterIRDA3PHHP_finalRead
  \/ readMeterIRDA3PHHP_end
  \/ readMeterIR1PH_setup
  \/ readMeterIR1PH_send
  \/ readMeterIR1PH_read
  \/ readMeterIR1PH_end
  \/ readMeterIR3PH_setup
  \/ readMeterIR3PH_send
  \/ readMeterIR3PH_read

Spec == Init /\ [][Next]_vars

\* The protocol specific readers are public (meter_reader.h:73-79): a caller
\* other than readMeter calls one with its own MeterData.  Nothing is cleared
\* or reset before the script starts; t stands for the reader that is called.
DirectReaders == {IRDA_3PH_RAW, IRDA_3PH_14HP, IRDA_3PH_SOLAR_RAW}
\* a call is followed when no more than this many unread bytes wait on the
\* channel
MaxStale == 1

callReader(t, prior, sd) ==
  /\ pc = "idle"
  /\ comm
  /\ hardware
  /\ Len(irdaRx) <= MaxStale
  /\ type' = t
  /\ data' = prior
  /\ seed' = sd
  /\ i' = 0
  /\ responseData' = <<>>
  /\ msg2' = <<>>
  /\ caller' = IF Dispatch(t) = "IRDA3PHSolar" THEN "solar" ELSE "direct"
  /\ ret' = FALSE
  /\ log' = <<>>
  /\ pc' = IF Dispatch(t) = "IRDA3PHSolar" THEN "IRDA3PH" ELSE Dispatch(t)
  /\ UNCHANGED <<decoderVars, mainVars>>
  /\ UNCHANGED <<comm, hardware, irdaRx, irRx, irdaEn, irdaBaud, irBaud, msgs>>

NextReaders ==
  \/ setup
  \/ \E t \in DirectReaders, prior \in Priors, sd \in Seeds :
       callReader(t, prior, sd)
  \/ return
  \/ readMeterIRDA3PH_setup
  \/ readMeterIRDA3PH_handshake
  \/ readMeterIRDA3PH_handshakeRead
  \/ readMeterIRDA3PH_second
  \/ readMeterIRDA3PH_finalRead
  \/ readMeterIRDA3PH_end
  \/ readMeterIRDA3PHSolar_send
  \/ readMeterIRDA3PHSolar_read
  \/ readMeterIRDA3PHHP_setup
  \/ readMeterIRDA3PHHP_handshake
  \/ readMeterIRDA3PHHP_handshakeRead
  \/ readMeterIRDA3PHHP_second
  \/ readMeterIRDA3PHHP_finalRead
  \/ readMeterIRDA3PHHP_end

SpecReaders == Init /\ [][NextReaders]_vars

\* the steps of the protocol readers: the thread of control is inside a
\* readMeter call and runs on
Step ==
  \/ readMeterIRDA1PH_setup
  \/ readMeterIRDA1PH_send
  \/ readMeterIRDA1PH_read
  \/ readMeterIRDA1PH_end
  \/ readMeterIRDA3PH_setup
  \/ readMeterIRDA3PH_handshake
  \/ readMeterIRDA3PH_handshakeRead
  \/ readMeterIRDA3PH_second
  \/ readMeterIRDA3PH_finalRead
  \/ readMeterIRDA3PH_end
  \/ readMeterIRDA3PHSolar_send
  \/ readMeterIRDA3PHSolar_read
  \/ readMeterIRDA3PHHP_setup
  \/ readMeterIRDA3PHHP_handshake
  \/ readMeterIRDA3PHHP_handshakeRead
  \/ readMeterIRDA3PHHP_second
  \/ readMeterIRDA3PHHP_finalRead
  \/ readMeterIRDA3PHHP_end
  \/ readMeterIR1PH_setup
  \/ readMeterIR1PH_send
  \/ readMeterIR1PH_read
  \/ readMeterIR1PH_end
  \/ readMeterIR3PH_setup
  \/ readMeterIR3PH_send
  \/ readMeterIR3PH_read

-----------------------------------------------------------------------------
(* The loop of readIRDAPacket / readIRPacket, one turn at a time.  pktRead is
   the call: elapsed is millis() - startTime, data the bytes collected, supply
   the bytes the meter has yet to deliver, endless a meter that never stops
   sending.  The loop reads nothing of the reader but the receiver, so it is
   followed on the reader as constructed. *)

\* the default timeoutMs of both functions
ReadTimeoutMs == 2000
\* the byte limits of a handshake read and of a final read
ByteLimits == {30, 79}
\* a meter that sends nothing, or a few bytes
PartialBytes == 2
Supplies == {0, PartialBytes}
\* delay(1) lasts one millisecond, or up to MaxDelay when other tasks run
MaxDelay == 7

\* the condition with either test keeping the loop going
loopCondition_either(r) ==
  r.elapsed < r.timeoutMs \/ Len(r.data) < r.expectedBytes

\* the condition of the while loop
loopCondition(r) == r.elapsed < r.timeoutMs /\ Len(r.data) < r.expectedBytes

ReadFrame == UNCHANGED <<readerVars, decoderVars, bleCommand, printed, config, preferences,
                         millis, powerMgr, ota, led, handledAt, bleVars>>

\* data = ""; startTime = millis();
readPacket_call(expectedBytes, endless, supply) ==
  /\ InitReader
  /\ pktRead.pc = "idle"
  /\ pktRead' = [pc |-> "loop", expectedBytes |-> expectedBytes,
                 timeoutMs |-> ReadTimeoutMs, elapsed |-> 0, data |-> <<>>,
                 endless |-> endless, supply |-> supply, ok |-> FALSE]
  /\ ReadFrame

\* one turn of the loop: a byte is taken when one is available, then
\* delay(1), which lasts d milliseconds
readPacket_turn(available, d) ==
  /\ pktRead.pc = "loop"
  /\ loopCondition(pktRead)
  /\ available => pktRead.endless \/ pktRead.supply > 0
  /\ pktRead.endless => available
  /\ pktRead' = [pktRead EXCEPT
                   !.data = IF available THEN Append(@, 85) ELSE @,
                   !.supply = IF available /\ ~pktRead.endless THEN @ - 1
                              ELSE @,
                   !.elapsed = @ + d]
  /\ ReadFrame

\* the loop is left: return data.length() >= expectedBytes
readPacket_exit ==
  /\ pktRead.pc = "loop"
  /\ ~loopCondition(pktRead)
  /\ pktRead' = [pktRead EXCEPT
                   !.pc = "done",
                   !.ok = Len(pktRead.data) >= pktRead.expectedBytes]
  /\ ReadFrame

\* the caller has taken the result
readPacket_return ==
  /\ pktRead.pc = "done"
  /\ pktRead' = NoRead
  /\ ReadFrame

readPacket ==
  \/ \E d \in {1, MaxDelay} :
       \/ readPacket_turn(TRUE, d)
       \/ readPacket_turn(FALSE, d)
  \/ readPacket_exit
  \/ readPacket_return

\* a call of readMeter with each read in one step, or one read turn by turn
NextTimed ==
  \/ pktRead.pc = "idle" /\ Next
  \/ \E expectedBytes \in ByteLimits, endless \in BOOLEAN,
        supply \in Supplies :
       readPacket_call(expectedBytes, endless, supply)
  \/ readPacket

\* The processor keeps executing the call it is in, and delay(1) returns.
SpecFair ==
  /\ Init
  /\ [][NextTimed]_vars
  /\ WF_vars(Step)
  /\ WF_vars(readPacket)


-----------------------------------------------------------------------------
(* DataParser: numbers and strings *)

\* A uint32_t as two 16-bit halves: the value is hi * 65536 + lo.
U32(hi, lo) == [hi |-> hi, lo |-> lo]

U32Zero == U32(0, 0)

\* the uint32_t of a small non-negative integer
ToU32(n) == U32(n \div 65536, n % 65536)

\* (result << 8) | b on a uint32_t: the top byte is shifted out
Shl8Or(u, b) ==
  U32((u.hi % 256) * 256 + (u.lo \div 256), (u.lo % 256) * 256 + b)

\* hexToDecimal(&data[off], length): the bytes from offset off, most
\* significant first
RECURSIVE hexToDecimalFrom(_, _, _, _)
hexToDecimalFrom(d, off, length, result) ==
  IF length = 0 THEN result
  ELSE hexToDecimalFrom(d, off + 1, length - 1, Shl8Or(result, At(d, off)))

\* hexToDecimal whose loop assembles the bytes least significant first
hexToDecimal_littleEndian(d, off, length) ==
  hexToDecimalFrom([k \in 1..Len(d) |->
                      IF k - 1 \in off..(off + length - 1)
                        THEN At(d, off + (off + length - 1) - (k - 1))
                        ELSE d[k]],
                   off, length, U32Zero)

hexToDecimal(d, off, length) == hexToDecimalFrom(d, off, length, U32Zero)

\* A float is a decimal fraction: the value is v / 10^d, with v a uint32_t.
\* Zero has one representation, ZeroFloat.  The rounding of the 32-bit float
\* is not modelled.

\* convertToFloat(value, decimals): value / 10^decimals
convertToFloat(value, decimals) ==
  IF value = U32Zero THEN ZeroFloat ELSE [v |-> value, d |-> decimals]

\* quotient and remainder of a uint32_t by ten
DivMod10(u) ==
  LET t == (u.hi % 10) * 65536 + u.lo
  IN [q |-> U32(u.hi \div 10, t \div 10), r |-> t % 10]

\* the decimal digits of a uint32_t, none for zero
RECURSIVE Digits(_)
Digits(u) ==
  IF u = U32Zero THEN <<>>
  ELSE Digits(DivMod10(u).q) \o <<48 + DivMod10(u).r>>

\* String(n) of an unsigned number: its decimal text
StringOf(u) == IF u = U32Zero THEN <<48>> ELSE Digits(u)

\* String(char(b)): a one-character C string, empty for the NUL character
CharString(b) == IF b = 0 THEN <<>> ELSE <<b>>

\* the byte taken as a binary number and split into decimal tens and units
bcdToDecimal_binary(bcd) == [tens |-> (bcd \div 10) % 16, units |-> bcd % 10]

\* bcdToDecimal(bcd, tens, units): the two nibbles
bcdToDecimal(bcd) == [tens |-> (bcd \div 16) % 16, units |-> bcd % 16]

\* formatBCDTime(hour, minute, second): "HH:MM", and ":SS" when second != 0
formatBCDTime(hour, minute, second) ==
  LET h == bcdToDecimal(hour)
      m == bcdToDecimal(minute)
      sec == bcdToDecimal(second)
  IN StringOf(ToU32(h.tens)) \o StringOf(ToU32(h.units)) \o <<58>>
       \o StringOf(ToU32(m.tens)) \o StringOf(ToU32(m.units))
       \o (IF second # 0
             THEN <<58>> \o StringOf(ToU32(sec.tens))
                    \o StringOf(ToU32(sec.units))
             ELSE <<>>)

\* formatBCDDate(day, month, year): "DD:MM:YY"
formatBCDDate(day, month, year) ==
  LET dd == bcdToDecimal(day)
      mm == bcdToDecimal(month)
      yy == bcdToDecimal(year)
  IN StringOf(ToU32(dd.tens)) \o StringOf(ToU32(dd.units)) \o <<58>>
       \o StringOf(ToU32(mm.tens)) \o StringOf(ToU32(mm.units)) \o <<58>>
       \o StringOf(ToU32(yy.tens)) \o StringOf(ToU32(yy.units))

\* String::substring(left, right): the bytes at offsets left..right-1
substring(str, left, right) ==
  IF left >= Len(str) THEN <<>>
  ELSE SubSeq(str, left + 1, Min(right, Len(str)))

\* String::replace(String(char(b)), ""): every byte b removed
RECURSIVE removeByte(_, _)
removeByte(str, b) ==
  IF str = <<>> THEN <<>>
  ELSE (IF str[1] = b THEN <<>> ELSE <<str[1]>>) \o removeByte(Tail(str), b)

\* isspace
IsSpace(b) == b \in (9..13) \cup {32}

\* String::trim(): leading and trailing white space removed
RECURSIVE trimLeft(_)
trimLeft(str) ==
  IF str # <<>> /\ IsSpace(str[1]) THEN trimLeft(Tail(str)) ELSE str

RECURSIVE trimRight(_)
trimRight(str) ==
  IF str # <<>> /\ IsSpace(str[Len(str)])
    THEN trimRight(SubSeq(str, 1, Len(str) - 1))
    ELSE str

trim(str) == trimRight(trimLeft(str))

\* String::indexOf(":", from): offset of the first ':' at or after from, or -1
indexOfColon(str, from) ==
  LET hits == {k \in from..(Len(str) - 1) : At(str, k) = 58}
  IN IF hits = {} THEN -1 ELSE CHOOSE k \in hits : \A m \in hits : k <= m

IsDigit(b) == b \in 48..57

\* the leading decimal digits of str
RECURSIVE leadingDigits(_)
leadingDigits(str) ==
  IF str # <<>> /\ IsDigit(str[1])
    THEN <<str[1]>> \o leadingDigits(Tail(str))
    ELSE <<>>

\* the number a string of at most nine decimal digits denotes
RECURSIVE digitsValue(_, _)
digitsValue(ds, acc) ==
  IF ds = <<>> THEN acc ELSE digitsValue(Tail(ds), acc * 10 + (ds[1] - 48))

\* digits without their trailing zeros
RECURSIVE dropTrailingZeros(_)
dropTrailingZeros(ds) ==
  IF ds # <<>> /\ ds[Len(ds)] = 48
    THEN dropTrailingZeros(SubSeq(ds, 1, Len(ds) - 1))
    ELSE ds

\* String::toFloat() of a string of at most nine characters: the decimal
\* number it starts with (digits, then optionally '.' and digits), zero when
\* it starts with none.  Signs and exponents are not modelled.
toFloat(str) ==
  LET ip == leadingDigits(str)
      rest == SubSeq(str, Len(ip) + 1, Len(str))
      fp == IF rest # <<>> /\ rest[1] = 46
              THEN dropTrailingZeros(leadingDigits(Tail(rest)))
              ELSE <<>>
  IN convertToFloat(ToU32(digitsValue(ip \o fp, 0)), Len(fp))

-----------------------------------------------------------------------------
(* DataParser: the variant parsers.  Each takes the capture, the record it   *)
(* writes to and whether comm is set, and yields the return value, the       *)
(* record after the call and the lines printed.                              *)

\* validatePacketLength whose comparison also rejects the minimum length
validatePacketLength_strict(rawData, minLength, cm) ==
  [ok |-> Len(rawData) > minLength,
   out |-> IF Len(rawData) <= minLength /\ cm
             THEN <<"ERROR: Packet too short">> ELSE <<>>]

validatePacketLength(rawData, minLength, cm) ==
  [ok |-> ~(Len(rawData) < minLength),
   out |-> IF Len(rawData) < minLength /\ cm
             THEN <<"ERROR: Packet too short">> ELSE <<>>]

\* what a parser yields when the length gate rejects the capture: the record
\* is not touched
Rejected(gate, rec) == [ret |-> FALSE, parsed |-> rec, out |-> gate.out]

\* what a parser yields at its end
Accepted(rec) ==
  [ret |-> TRUE, parsed |-> [rec EXCEPT !.isValid = TRUE], out |-> <<>>]

\* rawData.substring(from, to) with the control character 6 removed, trimmed
cleanField(rawData, from, to) ==
  trim(removeByte(substring(rawData, from, to), 6))

parse1PhaseIRDA(rawData, rec, cm) ==
  LET gate == validatePacketLength(rawData, 120, cm)
      n == Len(rawData)
      secondPacketStart == indexOfColon(rawData, 30)
      thirdPacketStart == indexOfColon(rawData, secondPacketStart + 30)
      \* the fourth packet's RMD string is a local that is dropped
      p == [rec EXCEPT
              !.isValid = FALSE,
              !.info.serialNumber =
                 IF n > 24 THEN cleanField(rawData, 16, 24) ELSE @,
              !.info.manufacturerId =
                 IF secondPacketStart > 0 /\ n > secondPacketStart + 32
                   THEN cleanField(rawData, secondPacketStart + 16,
                                   secondPacketStart + 32)
                   ELSE @,
              !.energy.kwh =
                 IF thirdPacketStart > 0 /\ n > thirdPacketStart + 25
                   THEN toFloat(cleanField(rawData, thirdPacketStart + 16,
                                           thirdPacketStart + 25))
                   ELSE @,
              !.info.phase = 1]
  IN IF ~gate.ok THEN Rejected(gate, rec) ELSE Accepted(p)

\* the scaled number at offset off: convertToFloat(hexToDecimal(&data[off],
\* length), decimals)
Scaled(d, off, length, decimals) ==
  convertToFloat(hexToDecimal(d, off, length), decimals)

parse3PhaseIRDA(rawData, rec, cm) ==
  LET gate == validatePacketLength(rawData, 79, cm)
      n == Len(rawData)
      d == rawData
      p == [rec EXCEPT
              !.isValid = FALSE,
              !.info.manufacturerId =
                 IF n > 21 THEN StringOf(hexToDecimal(d, 18, 3)) ELSE @,
              !.info.timestamp =
                 IF n > 26
                   THEN formatBCDTime(At(d, 21), At(d, 22), At(d, 23)) ELSE @,
              !.info.date =
                 IF n > 29
                   THEN formatBCDDate(At(d, 24), At(d, 25), At(d, 26)) ELSE @,
              !.electrical.voltageR = IF n > 33 THEN Scaled(d, 27, 2, 1) ELSE @,
              !.electrical.voltageY = IF n > 33 THEN Scaled(d, 29, 2, 1) ELSE @,
              !.electrical.voltageB = IF n > 33 THEN Scaled(d, 31, 2, 1) ELSE @,
              !.electrical.currentR = IF n > 39 THEN Scaled(d, 33, 2, 2) ELSE @,
              !.electrical.currentY = IF n > 39 THEN Scaled(d, 35, 2, 2) ELSE @,
              !.electrical.currentB = IF n > 39 THEN Scaled(d, 37, 2, 2) ELSE @,
              !.energy.kwh = IF n > 47 THEN Scaled(d, 43, 4, 2) ELSE @,
              !.energy.kvah = IF n > 59 THEN Scaled(d, 55, 4, 2) ELSE @,
              !.energy.maxDemand = IF n > 61 THEN Scaled(d, 59, 2, 2) ELSE @,
              !.info.make =
                 IF n > 69
                   THEN CharString(At(d, 66)) \o CharString(At(d, 67))
                          \o CharString(At(d, 68))
                   ELSE @,
              !.info.phase = IF n > 70 THEN At(d, 69) ELSE @,
              !.info.multiplicationFactor =
                 IF n > 72 THEN Scaled(d, 70, 2, 2) ELSE @]
  IN IF ~gate.ok THEN Rejected(gate, rec) ELSE Accepted(p)

\* while (mfIdStr.length() < digitCount) mfIdStr = "0" + mfIdStr
RECURSIVE padZeros(_, _)
padZeros(str, digitCount) ==
  IF Len(str) < digitCount THEN padZeros(<<48>> \o str, digitCount) ELSE str

parse3PhaseHPIRDA(rawData, rec, digitCount, cm) ==
  LET gate == validatePacketLength(rawData, 71, cm)
      n == Len(rawData)
      d == rawData
      p == [rec EXCEPT
              !.isValid = FALSE,
              !.info.manufacturerId =
                 IF n > 27
                   THEN padZeros(StringOf(hexToDecimal(d, 23, 4)), digitCount)
                   ELSE @,
              !.info.timestamp =
                 IF n > 34
                   THEN formatBCDTime(At(d, 31), At(d, 32), At(d, 33)) ELSE @,
              !.info.date =
                 IF n > 37
                   THEN formatBCDDate(At(d, 34), At(d, 35), At(d, 36)) ELSE @,
              !.electrical.voltageR = IF n > 43 THEN Scaled(d, 38, 2, 1) ELSE @,
              !.electrical.voltageY = IF n > 43 THEN Scaled(d, 40, 2, 1) ELSE @,
              !.electrical.voltageB = IF n > 43 THEN Scaled(d, 42, 2, 1) ELSE @,
              !.electrical.currentR = IF n > 49 THEN Scaled(d, 44, 2, 2) ELSE @,
              !.electrical.currentY = IF n > 49 THEN Scaled(d, 46, 2, 2) ELSE @,
              !.electrical.currentB = IF n > 49 THEN Scaled(d, 48, 2, 2) ELSE @,
              !.energy.kwh = IF n > 57 THEN Scaled(d, 49, 4, 2) ELSE @,
              !.energy.kvah = IF n > 61 THEN Scaled(d, 53, 4, 2) ELSE @,
              !.info.phase = 3]
  IN IF ~gate.ok THEN Rejected(gate, rec) ELSE Accepted(p)

parse1PhaseIR(rawData, rec, cm) == parse1PhaseIRDA(rawData, rec, cm)

parse3PhaseIR(rawData, rec, cm) ==
  LET gate == validatePacketLength(rawData, 43, cm)
      n == Len(rawData)
      d == rawData
      p == [rec EXCEPT
              !.isValid = FALSE,
              !.info.manufacturerId =
                 IF n > 10 THEN StringOf(hexToDecimal(d, 6, 4)) ELSE @,
              !.info.date =
                 IF n > 15
                   THEN formatBCDDate(At(d, 10), At(d, 11), At(d, 12)) ELSE @,
              !.info.timestamp =
                 IF n > 15 THEN formatBCDTime(At(d, 13), At(d, 14), 0) ELSE @,
              !.energy.kwh = IF n > 19 THEN Scaled(d, 15, 4, 3) ELSE @,
              !.energy.kvarhLag = IF n > 23 THEN Scaled(d, 19, 4, 3) ELSE @,
              !.energy.kvarhLead = IF n > 27 THEN Scaled(d, 23, 4, 3) ELSE @,
              !.energy.kvah = IF n > 31 THEN Scaled(d, 27, 4, 3) ELSE @,
              !.energy.powerFactor =
                 IF n > 32 THEN convertToFloat(ToU32(At(d, 31)), 2) ELSE @,
              !.energy.maxDemand = IF n > 35 THEN Scaled(d, 32, 2, 3) ELSE @,
              !.electrical.tamperCount =
                 IF n > 43 THEN hexToDecimal(d, 39, 2).lo ELSE @,
              !.electrical.tamperStatus =
                 IF n > 43 THEN hexToDecimal(d, 41, 2).lo ELSE @,
              !.info.phase = 3]
  IN IF ~gate.ok THEN Rejected(gate, rec) ELSE Accepted(p)

-----------------------------------------------------------------------------
(* DataParser::parseAndPrint and the output formatters.  A printed line is   *)
(* recorded by its fixed text, without the value it carries.                 *)

Positive(f) == f # ZeroFloat

Line1(cond, text) == IF cond THEN <<text>> ELSE <<>>

printSeparator(title) == <<"=== " \o title \o " ===">>

printMeterInfo(info) ==
  printSeparator("METER INFORMATION")
    \o Line1(Len(info.serialNumber) > 0, "Serial Number: ")
    \o Line1(Len(info.manufacturerId) > 0, "Manufacturer ID: ")
    \o Line1(Len(info.timestamp) > 0, "Time: ")
    \o Line1(Len(info.date) > 0, "Date: ")
    \o Line1(Len(info.make) > 0, "Make: ")
    \o Line1(info.phase > 0, "Phase: ")
    \o Line1(Positive(info.multiplicationFactor), "Multiplication Factor: ")
    \o Line1(info.mdResetCount > 0, "MD Reset Count: ")

printEnergyData(energy) ==
  printSeparator("ENERGY DATA")
    \o Line1(Positive(energy.kwh), "KWh: ")
    \o Line1(Positive(energy.kvah), "KVAh: ")
    \o Line1(Positive(energy.kvarh), "KVArh: ")
    \o Line1(Positive(energy.kvarhLag), "KVArh Lag: ")
    \o Line1(Positive(energy.kvarhLead), "KVArh Lead: ")
    \o Line1(Positive(energy.maxDemand), "Max Demand: ")
    \o Line1(Positive(energy.powerFactor), "Power Factor: ")
    \o Line1(Len(energy.mdTime) > 0, "MD Time: ")
    \o Line1(Len(energy.mdDate) > 0, "MD Date: ")

printElectricalData(electrical) ==
  printSeparator("ELECTRICAL DATA")
    \o (IF Positive(electrical.voltageR)
          THEN <<"Voltage R: ", "Voltage Y: ", "Voltage B: ">> ELSE <<>>)
    \o (IF Positive(electrical.currentR)
          THEN <<"Current R: ", "Current Y: ", "Current B: ">> ELSE <<>>)
    \o Line1(Positive(electrical.frequency), "Frequency: ")
    \o Line1(electrical.tamperCount > 0, "Tamper Count: ")
    \o Line1(electrical.tamperStatus > 0, "Tamper Status: ")

printDataStatistics(rec) ==
  printSeparator("DATA STATISTICS")
    \o <<"Parsing Status: ", "Total Power: ">>
    \o Line1(rec.info.phase > 0, "System Type: ")

\* the switch of parseAndPrint: the parser of a type, "default" for the others
ParserOf(t) ==
  CASE t = IRDA_1PH_PARSED -> "parse1PhaseIRDA"
    [] t = IRDA_3PH_PARSED -> "parse3PhaseIRDA"
    [] t \in {IRDA_3PH_14HP, IRDA_3PH_13HP} -> "parse3PhaseHPIRDA"
    [] t = IR_1PH_PARSED -> "parse1PhaseIR"
    [] t = IR_3PH_PARSED -> "parse3PhaseIR"
    [] OTHER -> "default"

\* the parser call of each case, on the local ParsedMeterData
RunParser(t, rawData, cm) ==
  CASE t = IRDA_1PH_PARSED -> parse1PhaseIRDA(rawData, ParsedMeterData, cm)
    [] t = IRDA_3PH_PARSED -> parse3PhaseIRDA(rawData, ParsedMeterData, cm)
    [] t = IRDA_3PH_14HP -> parse3PhaseHPIRDA(rawData, ParsedMeterData, 8, cm)
    [] t = IRDA_3PH_13HP -> parse3PhaseHPIRDA(rawData, ParsedMeterData, 7, cm)
    [] t = IR_1PH_PARSED -> parse1PhaseIR(rawData, ParsedMeterData, cm)
    [] t = IR_3PH_PARSED -> parse3PhaseIR(rawData, ParsedMeterData, cm)

\* the lines after the switch: the record is printed if the parser
\* succeeded and the record is valid
printResult(r) ==
  IF r.ret /\ r.parsed.isValid
    THEN printMeterInfo(r.parsed.info) \o printEnergyData(r.parsed.energy)
           \o printElectricalData(r.parsed.electrical)
           \o printDataStatistics(r.parsed)
    ELSE <<"ERROR: Failed to parse meter data">>

\* what parseAndPrint yields after the parser of type t yielded r
afterParser(r, t) ==
  [ret |-> r.ret /\ r.parsed.isValid, parsed |-> r.parsed, ran |-> ParserOf(t),
   out |-> printSeparator("PARSING DATA") \o r.out \o printResult(r)]

\* parseAndPrint(data, type): yields the return value, the local record, the
\* parser that ran and the lines printed
parseAndPrint(d, t, cm) ==
  IF ~cm \/ ~d.isValid \/ Len(d.rawData) = 0
    THEN [ret |-> FALSE, parsed |-> ParsedMeterData, ran |-> "none",
          out |-> Line1(cm, "ERROR: Invalid data or parser not initialized")]
  ELSE IF ParserOf(t) = "default"
    THEN [ret |-> FALSE, parsed |-> ParsedMeterData, ran |-> "none",
          out |-> printSeparator("PARSING DATA")
                    \o <<"ERROR: Unsupported parsing type">>]
  ELSE afterParser(RunParser(t, d.rawData, cm), t)

-----------------------------------------------------------------------------
(* Calls into DataParser *)

\* capture lengths next to a length gate differ from it by at most this much
GateMargin == 1

\* the longest capture handed to a parser
MaxCapture == 150

GateLengths == {43, 71, 79, 120}

CaptureLengths ==
  {0, MaxCapture}
    \cup UNION {(m - GateMargin)..(m + GateMargin) : m \in GateLengths}

Patterns == {"zeros", "ones", "ramp", "text", "example"}

\* the byte at offset o of a capture: all 0x00, all 0xFF, a ramp over every
\* byte value, 30-byte text packets ": ... 123.50<ACK>" as a 1-phase meter
\* sends them, or a 3-phase record with 09 01 and 09 09 in the first two
\* voltage fields
PatternByte(pattern, o) ==
  CASE pattern = "zeros" -> 0
    [] pattern = "ones" -> 255
    [] pattern = "ramp" -> (7 * o + 3) % 256
    [] pattern = "text" ->
         CASE o % 30 = 0 -> 58
           [] o % 30 = 16 -> 32
           [] o % 30 \in 17..19 -> 49 + ((o % 30) - 17)
           [] o % 30 = 20 -> 46
           [] o % 30 = 21 -> 53
           [] o % 30 = 22 -> 48
           [] o % 30 = 23 -> 6
           [] OTHER -> 65 + (o % 26)
    [] pattern = "example" ->
         CASE o = 27 -> 9
           [] o = 28 -> 1
           [] o \in {29, 30} -> 9
           [] OTHER -> (3 * o) % 256

Capture(pattern, n) == [j \in 1..n |-> PatternByte(pattern, j - 1)]

Captures == {Capture(pt, n) : pt \in Patterns, n \in CaptureLengths}

\* a record an earlier decode of a 3-phase capture has filled
StaleParsed == parse3PhaseIRDA(Capture("ramp", 79), ParsedMeterData, FALSE).parsed

DirectEntries ==
  {"parse1PhaseIRDA", "parse3PhaseIRDA", "parse3PhaseHPIRDA", "parse1PhaseIR",
   "parse3PhaseIR"}

\* a caller is about to call one of the public functions of DataParser
InitDecode ==
  /\ InitReader
  /\ InitMain
  /\ parserComm \in BOOLEAN
  /\ dpc = "called"
  /\ entry \in DirectEntries \cup {"parseAndPrint"}
  /\ \E c \in Captures :
       IF entry = "parseAndPrint"
         THEN /\ arg \in [rawData : {c}, isValid : BOOLEAN,
                          type : MeterTypes, digitCount : {0}]
              /\ parsed = ParsedMeterData
         ELSE /\ arg \in [rawData : {c}, isValid : {TRUE},
                          type : {METER_TYPE_UNKNOWN},
                          digitCount : IF entry = "parse3PhaseHPIRDA"
                                         THEN {7, 8} ELSE {0}]
              /\ parsed \in {ParsedMeterData, StaleParsed}
  /\ success = FALSE
  /\ ran = "none"
  /\ out = <<>>

\* the call returns: r is what the function yields
Returns(r, parser) ==
  /\ dpc = "called"
  /\ dpc' = "returned"
  /\ parsed' = r.parsed
  /\ success' = r.ret
  /\ ran' = parser
  /\ out' = out \o r.out
  /\ UNCHANGED <<parserComm, entry, arg>>
  /\ UNCHANGED <<readerVars, mainVars>>

\* the same, for a call that reports the parser it ran
ReturnsRan(r) == Returns(r, r.ran)

Call_parse1PhaseIRDA ==
  /\ entry = "parse1PhaseIRDA"
  /\ Returns(parse1PhaseIRDA(arg.rawData, parsed, parserComm), entry)

Call_parse3PhaseIRDA ==
  /\ entry = "parse3PhaseIRDA"
  /\ Returns(parse3PhaseIRDA(arg.rawData, parsed, parserComm), entry)

Call_parse3PhaseHPIRDA ==
  /\ entry = "parse3PhaseHPIRDA"
  /\ Returns(parse3PhaseHPIRDA(arg.rawData, parsed, arg.digitCount,
                               parserComm), entry)

Call_parse1PhaseIR ==
  /\ entry = "parse1PhaseIR"
  /\ Returns(parse1PhaseIR(arg.rawData, parsed, parserComm), entry)

Call_parse3PhaseIR ==
  /\ entry = "parse3PhaseIR"
  /\ Returns(parse3PhaseIR(arg.rawData, parsed, parserComm), entry)

Call_parseAndPrint ==
  /\ entry = "parseAndPrint"
  /\ ReturnsRan(parseAndPrint(arg, arg.type, parserComm))

NextDecode ==
  \/ Call_parse1PhaseIRDA
  \/ Call_parse3PhaseIRDA
  \/ Call_parse3PhaseHPIRDA
  \/ Call_parse1PhaseIR
  \/ Call_parse3PhaseIR
  \/ Call_parseAndPrint

SpecDecode == InitDecode /\ [][NextDecode]_vars

-----------------------------------------------------------------------------
(* main.cpp: meter commands *)

\* A command is a String.  The commands of parseMeterCommand, and two with
\* the meter prefix that it does not know (IRDA9, IRIR3RAW)
Cmd ==
  [IRDA1 |-> "#IRDA1*",
   IRDA1P |-> "#IRDA1P*",
   IRDA3 |-> "#IRDA3*",
   IRDA3P |-> "#IRDA3P*",
   IRDA3P14HP |-> "#IRDA3P14HP*",
   IRDA3P13HP |-> "#IRDA3P13HP*",
   IRDA3SR |-> "#IRDA3SR*",
   IRDA3SP |-> "#IRDA3SP*",
   IRIR1 |-> "#IRIR1*",
   IRIR1P |-> "#IRIR1P*",
   IRIR3 |-> "#IRIR3*",
   IRIR3P |-> "#IRIR3P*",
   IRDA9 |-> "#IRDA9*",
   IRIR3RAW |-> "#IRIR3RAW*"]

MeterCommands ==
  {Cmd.IRDA1, Cmd.IRDA1P, Cmd.IRDA3, Cmd.IRDA3P, Cmd.IRDA3P14HP,
   Cmd.IRDA3P13HP, Cmd.IRDA3SR, Cmd.IRDA3SP, Cmd.IRIR1, Cmd.IRIR1P,
   Cmd.IRIR3, Cmd.IRIR3P}

Commands == MeterCommands \cup {Cmd.IRDA9, Cmd.IRIR3RAW}

\* String::startsWith
startsWith(str, prefix) ==
  Len(str) >= Len(prefix) /\ SubSeq(str, 1, Len(prefix)) = prefix

\* String::indexOf(sub): the first 0-based position of sub in str, -1 if none
indexOf(str, sub) ==
  LET at == {k \in 1..(Len(str) + 1 - Len(sub)) :
               SubSeq(str, k, k + Len(sub) - 1) = sub}
  IN IF at = {} THEN -1 ELSE (CHOOSE k \in at : \A j \in at : k <= j) - 1

\* parseMeterCommand(command), main.cpp:170-185
parseMeterCommand(c) ==
  CASE c = Cmd.IRDA1 -> IRDA_1PH_RAW
    [] c = Cmd.IRDA1P -> IRDA_1PH_PARSED
    [] c = Cmd.IRDA3 -> IRDA_3PH_RAW
    [] c = Cmd.IRDA3P -> IRDA_3PH_PARSED
    [] c = Cmd.IRDA3P14HP -> IRDA_3PH_14HP
    [] c = Cmd.IRDA3P13HP -> IRDA_3PH_13HP
    [] c = Cmd.IRDA3SR -> IRDA_3PH_SOLAR_RAW
    [] c = Cmd.IRDA3SP -> IRDA_3PH_SOLAR_PARSED
    [] c = Cmd.IRIR1 -> IR_1PH_RAW
    [] c = Cmd.IRIR1P -> IR_1PH_PARSED
    [] c = Cmd.IRIR3 -> IR_3PH_RAW
    [] c = Cmd.IRIR3P -> IR_3PH_PARSED
    [] OTHER -> METER_TYPE_UNKNOWN

\* shouldParseData(command): a "P" in the command and no "RAW"
shouldParseData(c) ==
  indexOf(c, "P") # -1 /\ indexOf(c, "RAW") = -1

\* getMeterTypeString(type), main.cpp:192-208
getMeterTypeString(t) ==
  CASE t = IRDA_1PH_RAW -> "IRDA-1Ph-RAW"
    [] t = IRDA_1PH_PARSED -> "IRDA-1Ph-PARSED"
    [] t = IRDA_3PH_RAW -> "IRDA-3Ph-RAW"
    [] t = IRDA_3PH_PARSED -> "IRDA-3Ph-PARSED"
    [] t = IRDA_3PH_14HP -> "IRDA-3Ph-14HP-PARSED"
    [] t = IRDA_3PH_13HP -> "IRDA-3Ph-13HP-PARSED"
    [] t = IRDA_3PH_SOLAR_RAW -> "IRDA-3Ph-SOLAR-RAW"
    [] t = IRDA_3PH_SOLAR_PARSED -> "IRDA-3Ph-SOLAR-PARSED"
    [] t = IR_1PH_RAW -> "IR-1Ph-RAW"
    [] t = IR_1PH_PARSED -> "IR-1Ph-PARSED"
    [] t = IR_3PH_RAW -> "IR-3Ph-RAW"
    [] t = IR_3PH_PARSED -> "IR-3Ph-PARSED"
    [] OTHER -> "UNKNOWN"

\* What the handler sends to the host is a sequence of entries
\* [text, arg, bytes]: the fixed text of a line, the String appended to it,
\* and the bytes of a String of the device printed as they are.
Text(str) == [text |-> str, arg |-> "", bytes |-> <<>>]

TextArg(str, a) == [text |-> str, arg |-> a, bytes |-> <<>>]

Bytes(b) == [text |-> "", arg |-> "", bytes |-> b]

\* the lines a DataParser call printed
Texts(lines) == [k \in DOMAIN lines |-> Text(lines[k])]

\* printBatteryStatus(level), communication.h:240-243
printBatteryStatus ==
  <<TextArg("BATTERY CHARGE: ", "<level> %"),
    TextArg("VERSION: ", "<version>")>>

\* printDataReceived(meterType), communication.h:245-248: the line and the
\* end-of-transmission character 254
printDataReceived(meterType) ==
  <<TextArg("DATA RECEIVED: ", meterType), Bytes(<<254>>)>>

\* handleMeterCommand(command) up to the call of readMeter, main.cpp:137-145.
\* loop() hands over a command only after setup() has run.
handleMeterCommand(c, sd) ==
  /\ pc = "idle"
  /\ comm
  /\ startsWith(c, "#IRDA") \/ startsWith(c, "#IRIR")
  /\ bleCommand' = c
  /\ UNCHANGED <<config, preferences, deviceVars, arrived, delivered>>
  /\ IF parseMeterCommand(c) = METER_TYPE_UNKNOWN
       THEN /\ printed' = <<Text("Unknown meter command")>>
            /\ pc' = "handled"
            /\ UNCHANGED btRx
            /\ UNCHANGED <<comm, hardware, type, data, ret, irdaRx, irRx,
                           irdaEn, irdaBaud, irBaud, msgs, i, responseData,
                           msg2, caller, seed, log>>
            /\ UNCHANGED decoderVars
       ELSE /\ printed' = <<>>
            /\ readMeter(parseMeterCommand(c), FreshData, sd)

\* handleMeterCommand after readMeter has returned, main.cpp:147-158
handleMeterCommand_result ==
  /\ pc = "done"
  /\ bleCommand # ""
  /\ pc' = "handled"
  /\ printed' =
       IF ret
         THEN (IF shouldParseData(bleCommand)
                 THEN Texts(parseAndPrint(data, type, parserComm).out)
                 ELSE <<Bytes(data.rawData)>>)
              \o printBatteryStatus
              \o printDataReceived(getMeterTypeString(type))
         ELSE <<Text("Error: Failed to read meter data")>>
  /\ UNCHANGED decoderVars
  /\ UNCHANGED <<deviceVars, bleVars>>
  /\ UNCHANGED <<bleCommand, config, preferences, comm, hardware, type, data, ret, irdaRx,
                 irRx, irdaEn, irdaBaud, irBaud, msgs, i, responseData, msg2,
                 caller, seed, log>>

\* handleCommand returns to loop(), main.cpp:63-111: the command, the
\* MeterData and the locals of the call are gone, the device waits for the
\* next command
loop ==
  /\ pc = "handled"
  /\ pc' = "idle"
  /\ bleCommand' = ""
  /\ printed' = <<>>
  /\ type' = METER_TYPE_UNKNOWN
  /\ data' = FreshData
  /\ ret' = FALSE
  /\ i' = 0
  /\ responseData' = <<>>
  /\ msg2' = <<>>
  /\ caller' = "readMeter"
  /\ seed' = 1
  /\ log' = <<>>
  /\ UNCHANGED decoderVars
  /\ UNCHANGED <<deviceVars, bleVars>>
  /\ UNCHANGED <<config, preferences, comm, hardware, irdaRx, irRx, irdaEn, irdaBaud,
                 irBaud, msgs>>

NextMain ==
  \/ setup
  \/ \E c \in Commands, sd \in Seeds : handleMeterCommand(c, sd)
  \/ handleMeterCommand_result
  \/ loop
  \/ readMeterIRDA1PH_setup
  \/ readMeterIRDA1PH_send
  \/ readMeterIRDA1PH_read
  \/ readMeterIRDA1PH_end
  \/ readMeterIRDA3PH_setup
  \/ readMeterIRDA3PH_handshake
  \/ readMeterIRDA3PH_handshakeRead
  \/ readMeterIRDA3PH_second
  \/ readMeterIRDA3PH_finalRead
  \/ readMeterIRDA3PH_end
  \/ readMeterIRDA3PHSolar_send
  \/ readMeterIRDA3PHSolar_read
  \/ readMeterIRDA3PHHP_setup
  \/ readMeterIRDA3PHHP_handshake
  \/ readMeterIRDA3PHHP_handshakeRead
  \/ readMeterIRDA3PHHP_second
  \/ readMeterIRDA3PHHP_finalRead
  \/ readMeterIRDA3PHHP_end
  \/ readMeterIR1PH_setup
  \/ readMeterIR1PH_send
  \/ readMeterIR1PH_read
  \/ readMeterIR1PH_end
  \/ readMeterIR3PH_setup
  \/ readMeterIR3PH_send
  \/ readMeterIR3PH_read

SpecMain == Init /\ [][NextMain]_vars

-----------------------------------------------------------------------------
(* main.cpp loop() and CommunicationManager::readBluetoothCommand: the host
   sends commands over Bluetooth while the device runs *)

\* what the host sends: a meter command, and a command with a line end
HostCommands == {"#IRIR3*", "#VER*\n"}
\* the host sends no more than this many characters altogether
MaxArrived == 14

\* the characters isPrintable() accepts, as far as the host uses them
PrintableChars == " #*0123456789ABCDEFGHIJKLMNOPQRSTUVWXYZ_abcdefghijklmnopqrstuvwxyz"

isPrintable(ch) ==
  \E k \in 1..Len(PrintableChars) : SubSeq(PrintableChars, k, k) = ch

\* the filter of readBluetoothCommand: no line feed, no carriage return,
\* nothing that is not printable
RECURSIVE Filtered(_)
Filtered(str) ==
  IF Len(str) = 0 THEN ""
  ELSE LET ch == SubSeq(str, 1, 1)
           rest == Filtered(SubSeq(str, 2, Len(str)))
       IN IF ch # "\n" /\ ch # "\r" /\ isPrintable(ch) THEN ch \o rest
          ELSE rest

\* readBluetoothCommand(): every available character is taken from the
\* buffer (one per millisecond, for up to 100 ms) and the filtered ones make
\* the command
readBluetoothCommand(rx) == Filtered(rx)

\* the host sends a command; the Bluetooth stack stores it in the receive
\* buffer whatever the device is doing
arrive(c) ==
  /\ Len(arrived) + Len(c) <= MaxArrived
  /\ btRx' = btRx \o c
  /\ arrived' = arrived \o c
  /\ UNCHANGED <<readerVars, decoderVars, bleCommand, printed, config, preferences,
                 deviceVars, delivered>>

\* loop(), main.cpp:65-68: a command was read and handleCommand is called
\* with it, up to the routing (ledOn, beep)
loop_read ==
  /\ pc = "idle"
  /\ comm
  /\ bleCommand = ""
  /\ btRx # ""
  /\ btRx' = ""
  /\ bleCommand' = readBluetoothCommand(btRx)
  /\ delivered' = delivered \o readBluetoothCommand(btRx)
  /\ printed' = IF readBluetoothCommand(btRx) # ""
                THEN <<TextArg("CMD: ", readBluetoothCommand(btRx))>>
                ELSE <<>>
  /\ UNCHANGED <<readerVars, decoderVars, config, preferences, deviceVars, arrived>>

\* CommunicationManager::printConfig(config), communication.h:229-238
printConfig(cfg) ==
  <<Text("=== System Configuration ==="),
    TextArg("Bluetooth Name: ", cfg.bluetoothName),
    TextArg("WiFi SSID: ", cfg.ssid),
    TextArg("Server IP: ", cfg.ipAddress),
    TextArg("Server Port: ", cfg.port),
    Text("Password: [PROTECTED]"),
    TextArg("Firmware: ", "<version>"),
    Text("===========================")>>

\* the branches of handleCommand that answer with one line or one printout,
\* main.cpp:91-105
handleCommand_answer(c) ==
  IF c = "#BATTV*" THEN printBatteryStatus
  ELSE IF c = "#VER*" THEN <<Text("<version>")>>
  ELSE IF c = "get_config" THEN printConfig(config)
  ELSE IF c = "   " THEN <<Text("PT-OK")>>
  ELSE <<TextArg("Unknown command: ", c)>>

\* the routing of handleCommand, main.cpp:85-105, for the command loop() read;
\* the "update_" branch is handleCommand_config
handleCommand_route(sd) ==
  /\ pc = "idle"
  /\ bleCommand # ""
  /\ ~startsWith(bleCommand, "update_")
  /\ IF startsWith(bleCommand, "#IRDA") \/ startsWith(bleCommand, "#IRIR")
       THEN handleMeterCommand(bleCommand, sd)
       ELSE /\ printed' = handleCommand_answer(bleCommand)
            /\ pc' = "handled"
            /\ UNCHANGED <<bleCommand, config, preferences, deviceVars, bleVars>>
            /\ UNCHANGED decoderVars
            /\ UNCHANGED <<comm, hardware, type, data, ret, irdaRx, irRx,
                           irdaEn, irdaBaud, irBaud, msgs, i, responseData,
                           msg2, caller, seed, log>>

NextBle ==
  \/ setup
  \/ \E c \in HostCommands : arrive(c)
  \/ loop_read
  \/ \E sd \in Seeds : handleCommand_route(sd)
  \/ handleMeterCommand_result
  \/ loop
  \/ readMeterIR3PH_setup
  \/ readMeterIR3PH_send
  \/ readMeterIR3PH_read

SpecBle == Init /\ [][NextBle]_vars

-----------------------------------------------------------------------------
(* main.cpp, config.cpp: configuration commands *)

\* the commands of handleConfigCommand that change a setting
ConfigNames ==
  [bluetoothName |-> "update_bname", ssid |-> "update_ssid",
   password |-> "update_password", ipAddress |-> "update_ipaddress",
   port |-> "update_port"]

Settings == DOMAIN ConfigNames

\* values sent after a command name: the examples of the README, a name of
\* 22 characters and one of two characters
ConfigValues ==
  {"PTA-001", "MyWiFi", "MyPassword123", "192.168.1.100", "8080",
   "ABCDEFGHIJKLMNOPQRSTUV", "AB"}

ConfigCommands ==
  {ConfigNames[f] \o v : f \in Settings, v \in ConfigValues}
    \cup {"update_unknown"}

\* handleConfigCommand(command), main.cpp:113-135: the ConfigManager after it
handleConfigCommand(c, m) ==
  IF startsWith(c, "update_bname")
    THEN updateBluetoothName(m, substringFrom(c, 14))
  ELSE IF startsWith(c, "update_ssid")
    THEN updateSSID(m, substringFrom(c, 13))
  ELSE IF startsWith(c, "update_password")
    THEN updatePassword(m, substringFrom(c, 17))
  ELSE IF startsWith(c, "update_ipaddress")
    THEN updateIPAddress(m, substringFrom(c, 18))
  ELSE IF startsWith(c, "update_port")
    THEN updatePort(m, substringFrom(c, 13))
  ELSE m

\* the command is one that changes a setting
IsUpdate(c) ==
  \E f \in Settings : startsWith(c, ConfigNames[f])

\* handleCommand(command) for a command that starts with "update_",
\* main.cpp:85-86
handleCommand_config(c) ==
  /\ pc = "idle"
  /\ comm
  /\ startsWith(c, "update_")
  /\ ~startsWith(c, "update_firmware")
  /\ bleCommand' = c
  /\ LET m == handleConfigCommand(c, Manager)
     IN /\ config' = m.config
        /\ preferences' = m.preferences
  /\ UNCHANGED <<deviceVars, bleVars>>
  /\ printed' = IF IsUpdate(c) THEN <<>>
                ELSE <<Text("Unknown config command")>>
  /\ pc' = "handled"
  /\ UNCHANGED decoderVars
  /\ UNCHANGED <<comm, hardware, type, data, ret, irdaRx, irRx, irdaEn,
                 irdaBaud, irBaud, msgs, i, responseData, msg2, caller, seed,
                 log>>

\* OTAManager::validateUpdateURL(server, port, path)
validateUpdateURL(server, port, path) ==
  /\ Len(server) # 0
  /\ ~(port <= 0 \/ port > 65535)
  /\ ~(Len(path) = 0 \/ ~startsWith(path, "/"))

\* what HTTPUpdate::update reports
HTTPUpdateReturns == {"HTTP_UPDATE_FAILED", "HTTP_UPDATE_NO_UPDATES", "HTTP_UPDATE_OK"}

\* OTAManager::performHTTPUpdate: rebootOnUpdate(false), then the download;
\* the result of the library call as an UpdateResult
performHTTPUpdate(httpResult) ==
  CASE httpResult = "HTTP_UPDATE_FAILED" -> "UPDATE_FAILED"
    [] httpResult = "HTTP_UPDATE_NO_UPDATES" -> "UPDATE_NO_UPDATES"
    [] httpResult = "HTTP_UPDATE_OK" -> "UPDATE_SUCCESS"
    [] OTHER -> "UPDATE_FAILED"

\* OTAManager::getUpdateResultString
getUpdateResultString(result) ==
  CASE result = "UPDATE_SUCCESS" -> "Success"
    [] result = "UPDATE_FAILED" -> "Failed"
    [] result = "UPDATE_NO_UPDATES" -> "No updates available"
    [] result = "UPDATE_WIFI_FAILED" -> "WiFi connection failed"
    [] result = "UPDATE_INVALID_URL" -> "Invalid URL"
    [] OTHER -> "Unknown"

\* OTAManager::disconnectWiFi(): WiFi.disconnect(); WiFi.mode(WIFI_OFF)
disconnectWiFi(o) == [o EXCEPT !.wifiMode = "WIFI_OFF", !.wifiLink = FALSE]

\* OTAManager::performUpdate(config): the manager after the call and the lines
\* sent to the host.  wifiConnected is what waitForWiFiConnection finds,
\* httpResult what the download reports; HTTP_UPDATE_OK means the library has
\* written the image and made it the boot image, and it does not restart
\* (rebootOnUpdate(false)).  connectToWiFi puts the interface in station
\* mode; when the connection fails the function returns with the interface
\* as connectToWiFi left it.  The dots, the signal strength and the address
\* lines depend on the network and are left out.
performUpdate(o, cfg, wifiConnected, httpResult) ==
  LET head == <<Text("=== OTA FIRMWARE UPDATE ==="),
                TextArg("Version: ", "<version>"),
                TextArg("Server: ", cfg.ipAddress \o ":" \o cfg.port),
                Text("=========================="),
                Text("Connecting to WiFi...")>>
      result == performHTTPUpdate(httpResult)
  IN IF o.updateInProgress
     THEN [ota |-> [o EXCEPT !.result = "UPDATE_FAILED"], out |-> <<>>]
     ELSE IF ~wifiConnected
     THEN [ota |-> [o EXCEPT !.updateInProgress = FALSE,
                             !.result = "UPDATE_WIFI_FAILED",
                             !.wifiMode = "WIFI_STA",
                             !.wifiLink = FALSE],
           out |-> head \o <<Text("WiFi connection failed"),
                             Text("Check SSID and password")>>]
     ELSE IF ~validateUpdateURL(cfg.ipAddress, toInt(cfg.port),
                                "/firmware/ota.bin")
     THEN [ota |-> [disconnectWiFi(o) EXCEPT
                      !.updateInProgress = FALSE,
                      !.result = "UPDATE_INVALID_URL"],
           out |-> head \o <<Text("WiFi connected successfully")>>]
     ELSE [ota |-> [disconnectWiFi(o) EXCEPT
                      !.updateInProgress = FALSE,
                      !.result = result,
                      !.flash = IF httpResult = "HTTP_UPDATE_OK"
                                THEN "new" ELSE @],
           out |-> head \o <<Text("WiFi connected successfully"),
                             Text("Starting firmware download..."),
                             Text("Downloading firmware..."),
                             TextArg("URL: http://",
                                     cfg.ipAddress \o ":" \o cfg.port
                                       \o "/firmware/ota.bin"),
                             TextArg("Update completed: ",
                                     getUpdateResultString(result))>>]

\* handleCommand(command) for "update_firmware", main.cpp:85-86, 129-131:
\* the result of performUpdate is dropped
handleCommand_firmware(wifiConnected, httpResult) ==
  /\ pc = "idle"
  /\ comm
  /\ bleCommand' = "update_firmware"
  /\ LET r == performUpdate(ota, config, wifiConnected, httpResult)
     IN /\ ota' = r.ota
        /\ printed' = r.out
  /\ pc' = "handled"
  /\ UNCHANGED <<config, preferences, pktRead, millis, powerMgr, led, handledAt, bleVars>>
  /\ UNCHANGED decoderVars
  /\ UNCHANGED <<comm, hardware, type, data, ret, irdaRx, irRx, irdaEn,
                 irdaBaud, irBaud, msgs, i, responseData, msg2, caller, seed,
                 log>>

NextConfig ==
  \/ setup
  \/ \E c \in ConfigCommands : handleCommand_config(c)
  \/ \E wifiConnected \in BOOLEAN, httpResult \in HTTPUpdateReturns :
       handleCommand_firmware(wifiConnected, httpResult)
  \/ loop

SpecConfig == Init /\ [][NextConfig]_vars

-----------------------------------------------------------------------------
(* What the host sees while it sets the WiFi password: loop(), the echo of
   readBluetoothCommand, handleConfigCommand and printConfig *)

\* the passwords the host sets, written after the command name as in the
\* command reference (config.h:347)
PasswordValues == {"MyPassword123", "MyHunter2"}

SecretCommands ==
  {"update_password" \o v : v \in PasswordValues}
    \cup {"get_config", "update_ssidMyWiFi"}

\* the host sends no more than this many characters altogether
MaxSent == 60

\* the host sends a command while the device waits for one
send(c) ==
  /\ comm
  /\ btRx = ""
  /\ bleCommand = ""
  /\ Len(arrived) + Len(c) <= MaxSent
  /\ btRx' = c
  /\ arrived' = arrived \o c
  /\ UNCHANGED <<readerVars, decoderVars, bleCommand, printed, config,
                 preferences, deviceVars, delivered>>

\* handleCommand for the command loop() read, when it starts with "update_"
handleCommand_update ==
  /\ bleCommand # ""
  /\ pc = "idle"
  /\ handleCommand_config(bleCommand)

NextSecret ==
  \/ setup
  \/ \E c \in SecretCommands : send(c)
  \/ loop_read
  \/ handleCommand_update
  \/ \E sd \in Seeds : handleCommand_route(sd)
  \/ loop

SpecSecret == Init /\ [][NextSecret]_vars

-----------------------------------------------------------------------------
(* The ConfigManager and its store over the life of the device: the store
   outlives a restart and a firmware update *)

\* values sent after a command name: a port, an address, two characters and
\* 36 characters (the first two characters do not reach the update function)
StoreValues ==
  {"8080", "192.168.1.100", "AB", "ABCDEFGHIJKLMNOPQRSTUVWXYZ0123456789"}

StoreCommands == {ConfigNames[f] \o v : f \in Settings, v \in StoreValues}

\* what the device may find stored when it starts: nothing, what this
\* firmware stored, and values that an earlier firmware or a worn flash left
StoredBefore ==
  {<<>>,
   [k \in {"ssid", "port"} |-> IF k = "ssid" THEN "Home" ELSE "8080"],
   [k \in {"blename", "ssid", "password", "ipaddress", "port"} |->
      CASE k = "blename" -> "ABCDEFGHIJKLMNOPQRSTUVWXYZ"
        [] k = "ssid" -> ""
        [] k = "password" -> ""
        [] k = "ipaddress" -> "10.0.0"
        [] k = "port" -> "70000"]}

InitStore ==
  /\ InitReader
  /\ parserComm = FALSE
  /\ InitParser
  /\ InitCommand
  /\ preferences \in StoredBefore

StoreFrame ==
  /\ UNCHANGED <<bleCommand, printed, deviceVars, bleVars>>
  /\ UNCHANGED decoderVars

\* config.loadAll() called again while the device runs
loadAll_call ==
  /\ pc = "idle"
  /\ config' = loadAll(Manager).config
  /\ UNCHANGED preferences
  /\ UNCHANGED readerVars
  /\ StoreFrame

\* config.resetToDefaults()
resetToDefaults_call ==
  /\ pc = "idle"
  /\ config' = resetToDefaults(Manager).config
  /\ preferences' = resetToDefaults(Manager).preferences
  /\ UNCHANGED readerVars
  /\ StoreFrame

\* the device restarts: the ConfigManager is constructed again with the
\* defaults (config.cpp:10-17), the store keeps what it holds, setup() runs
\* next
restart ==
  /\ pc = "idle"
  /\ comm
  /\ comm' = FALSE
  /\ hardware' = FALSE
  /\ parserComm' = FALSE
  /\ config' = DefaultConfig
  /\ UNCHANGED <<preferences, bleCommand, printed, deviceVars, bleVars>>
  /\ UNCHANGED parserVars
  /\ UNCHANGED <<pc, type, data, ret, irdaRx, irRx, irdaEn, irdaBaud, irBaud,
                 msgs, i, responseData, msg2, caller, seed, log>>

NextStore ==
  \/ setup
  \/ \E c \in StoreCommands : handleCommand_config(c)
  \/ loop
  \/ loadAll_call
  \/ resetToDefaults_call
  \/ restart

SpecStore == InitStore /\ [][NextStore]_vars

-----------------------------------------------------------------------------
(* PowerManager, power_management.h.  millis is the clock of the device; the
   unsigned long differences of the code are taken modulo 2^32. *)

\* the clock is followed up to here, in short steps up to MaxShort
MaxMillis == 260000
MaxShort == 3200
\* the time that passes between two calls: less than a long button press,
\* and more than 40 % of the sleep timeout
ShortTick == 1500
LongTick == 85000
Ticks == {ShortTick, LongTick}
\* averaged ADC readings of the battery: 9 %, 10 % and 100 %
Readings == {2139, 2140, 3500}
\* the extension a caller asks for
Extensions == {60000}

\* a - b in unsigned long arithmetic, for a, b < 2^31
Sub32(a, b) ==
  IF a >= b THEN ToU32(a - b)
  ELSE U32(65535 - ((b - a - 1) \div 65536), 65535 - ((b - a - 1) % 65536))

\* u > n for an unsigned long u and n < 2^31
Gt32(u, n) ==
  \/ u.hi > n \div 65536
  \/ u.hi = n \div 65536 /\ u.lo > n % 65536

\* BATTERY_SAMPLES readings with delay(2) after each
SampleMs == 100

\* PowerManager::calculateBatteryPercentage, with Arduino's map()
calculateBatteryPercentage(adcValue) ==
  IF adcValue <= 2000 THEN 0
  ELSE IF adcValue >= 3400 THEN 100
  ELSE ((adcValue - 2000) * (100 - 0)) \div (3400 - 2000) + 0

\* PowerManager::updateBatteryLevel: averageReading is the mean of the
\* samples, now the clock after they were taken
updateBatteryLevel(averageReading, now) ==
  LET level == calculateBatteryPercentage(averageReading)
  IN [levelPercent |-> IF level < 0 THEN 0 ELSE IF level > 100 THEN 100
                       ELSE level,
      isLow |-> level < 20,
      lastUpdateTime |-> now]

\* PowerManager::updateButtonState
updateButtonState(p, currentlyPressed, now) ==
  IF ~p.hardware THEN p
  ELSE IF currentlyPressed /\ ~p.buttonCurrentlyPressed
  THEN [p EXCEPT !.buttonCurrentlyPressed = TRUE,
                 !.buttonPressStartTime = now,
                 !.buttonLongPressDetected = FALSE]
  ELSE IF ~currentlyPressed /\ p.buttonCurrentlyPressed
  THEN [p EXCEPT !.buttonCurrentlyPressed = FALSE,
                 !.buttonLongPressDetected = FALSE]
  ELSE IF currentlyPressed /\ p.buttonCurrentlyPressed
  THEN [p EXCEPT !.buttonLongPressDetected =
                   \/ @
                   \/ Gt32(Sub32(now, p.buttonPressStartTime),
                           BUTTON_DEBOUNCE_MS)]
  ELSE p

checkManualSleepTrigger(p) == p.hardware /\ p.buttonLongPressDetected

\* sleepTimer > sleepTimeoutMs * 0.8, compared as doubles
checkAutoSleepCondition(p) == Gt32(p.sleepTimer, (p.sleepTimeoutMs * 8) \div 10)

checkLowBatteryCondition(p) == p.battery.isLow /\ p.battery.levelPercent < 10

\* the state update() settles on
stateAfterUpdate(p) ==
  IF checkManualSleepTrigger(p) \/ checkLowBatteryCondition(p)
  THEN POWER_PREPARING_SLEEP
  ELSE IF checkAutoSleepCondition(p)
  THEN IF Gt32(p.sleepTimer, p.sleepTimeoutMs) THEN POWER_PREPARING_SLEEP
       ELSE POWER_IDLE
  ELSE POWER_ACTIVE

shouldSleep(p) == p.currentState = POWER_PREPARING_SLEEP

\* the objects neither the power manager nor handleCommand touches here
PowerRest ==
  UNCHANGED <<readerVars, decoderVars, printed, config, preferences, pktRead, ota,
              bleVars>>

\* the objects the power manager does not touch
PowerFrame ==
  /\ PowerRest
  /\ UNCHANGED <<bleCommand, led, handledAt>>

\* time passes
tick(d) ==
  /\ ~powerMgr.asleep
  /\ millis + d <= (IF d = ShortTick THEN MaxShort ELSE MaxMillis)
  /\ millis' = millis + d
  /\ UNCHANGED powerMgr
  /\ PowerFrame

\* powerMgr.setHardwareControl(&hardware), main.cpp setup()
setHardwareControl ==
  /\ ~powerMgr.initialized
  /\ ~powerMgr.hardware
  /\ powerMgr' = [powerMgr EXCEPT !.hardware = TRUE]
  /\ UNCHANGED millis
  /\ PowerFrame

\* PowerManager::init(), called once by setup()
init(averageReading) ==
  /\ ~powerMgr.initialized
  /\ millis' = millis + SampleMs
  /\ powerMgr' = [powerMgr EXCEPT
                    !.initialized = TRUE,
                    !.lastActivityTime = millis,
                    !.sleepTimer = U32Zero,
                    !.battery = updateBatteryLevel(averageReading, millis'),
                    !.currentState = POWER_ACTIVE]
  /\ PowerFrame

\* PowerManager::update(): the battery is read when the last reading is old,
\* then the button, the sleep timer and the state
update(averageReading, currentlyPressed) ==
  /\ powerMgr.initialized
  /\ ~powerMgr.asleep
  /\ bleCommand = ""
  /\ LET refresh == Gt32(Sub32(millis, powerMgr.battery.lastUpdateTime),
                         powerMgr.batteryUpdateInterval)
         now == IF refresh THEN millis + SampleMs ELSE millis
         p1 == [powerMgr EXCEPT
                  !.battery = IF refresh
                              THEN updateBatteryLevel(averageReading, now)
                              ELSE @]
         p2 == updateButtonState(p1, currentlyPressed, now)
         p3 == [p2 EXCEPT !.sleepTimer = Sub32(now, p2.lastActivityTime)]
     IN /\ millis' = now
        /\ powerMgr' = [p3 EXCEPT !.currentState = stateAfterUpdate(p3)]
  /\ PowerFrame

\* resetSleepTimer that leaves the state as it is
resetSleepTimer_keepState(p, now) ==
  [p EXCEPT !.lastActivityTime = now, !.sleepTimer = U32Zero]

\* PowerManager::resetSleepTimer() at the clock now; main.cpp calls it at the
\* end of handleCommand and nowhere else
resetSleepTimer(p, now) ==
  [p EXCEPT !.lastActivityTime = now,
            !.sleepTimer = U32Zero,
            !.currentState = IF @ \in {POWER_IDLE, POWER_PREPARING_SLEEP}
                             THEN POWER_ACTIVE ELSE @]

\* what loop() hands to handleCommand: a command it knows and one it does not
HandledCommands == {"#VER*", "reboot"}

\* handleCommand(command) up to the routing, main.cpp:79-83: loop() calls it
\* after setup() and between two calls of powerMgr.update().  The time the
\* beeps and the handler take passes in tick steps.
handleCommand_begin(c) ==
  /\ powerMgr.initialized
  /\ ~powerMgr.asleep
  /\ bleCommand = ""
  /\ bleCommand' = c
  /\ led' = TRUE
  /\ UNCHANGED <<millis, powerMgr, handledAt>>
  /\ PowerRest

\* the end of handleCommand, main.cpp:107-110, whatever branch was taken
handleCommand_end ==
  /\ bleCommand # ""
  /\ ~powerMgr.asleep
  /\ bleCommand' = ""
  /\ led' = FALSE
  /\ powerMgr' = resetSleepTimer(powerMgr, millis)
  /\ handledAt' = millis
  /\ UNCHANGED millis
  /\ PowerRest

\* PowerManager::getTimeSinceLastActivity() at the clock now, an unsigned long
getTimeSinceLastActivity(p, now) == Sub32(now, p.lastActivityTime)

\* PowerManager::getSleepTimeRemaining() at the clock now
getSleepTimeRemaining(p, now) ==
  LET elapsed == getTimeSinceLastActivity(p, now)
  IN IF Gt32(elapsed, p.sleepTimeoutMs - 1) THEN 0
     ELSE p.sleepTimeoutMs - (elapsed.hi * 65536 + elapsed.lo)

\* PowerManager::extendSleepTimer(additionalMs)
extendSleepTimer(additionalMs) ==
  /\ powerMgr.initialized
  /\ ~powerMgr.asleep
  /\ powerMgr.lastActivityTime + additionalMs <= MaxMillis
  /\ powerMgr' = [powerMgr EXCEPT !.lastActivityTime = @ + additionalMs]
  /\ UNCHANGED millis
  /\ PowerFrame

\* loop(): if (powerMgr.shouldSleep()) powerMgr.enterDeepSleep();
\* prepareSleep() sets the state, esp_deep_sleep_start() stops the processor
enterDeepSleep ==
  /\ powerMgr.initialized
  /\ ~powerMgr.asleep
  /\ bleCommand = ""
  /\ shouldSleep(powerMgr)
  /\ powerMgr' = [powerMgr EXCEPT !.currentState = POWER_PREPARING_SLEEP,
                                  !.asleep = TRUE]
  /\ UNCHANGED millis
  /\ PowerFrame

\* the button wakes the device: it restarts and the objects are constructed
\* again
wakeup ==
  /\ powerMgr.asleep
  /\ powerMgr' = NewPowerManager
  /\ millis' = 0
  /\ led' = FALSE
  /\ handledAt' = -1
  /\ UNCHANGED bleCommand
  /\ PowerRest

NextPower ==
  \/ \E d \in Ticks : tick(d)
  \/ setHardwareControl
  \/ \E averageReading \in Readings : init(averageReading)
  \/ \E averageReading \in Readings, currentlyPressed \in BOOLEAN :
       update(averageReading, currentlyPressed)
  \/ \E c \in HandledCommands : handleCommand_begin(c)
  \/ handleCommand_end
  \/ \E additionalMs \in Extensions : extendSleepTimer(additionalMs)
  \/ enterDeepSleep
  \/ wakeup

SpecPower == Init /\ [][NextPower]_vars

-----------------------------------------------------------------------------
(* What a call did, read off its history *)

OnePhase == {IRDA_1PH_RAW, IRDA_1PH_PARSED, IR_1PH_RAW, IR_1PH_PARSED}
ThreePhase == {IRDA_3PH_RAW, IRDA_3PH_PARSED}
HP == {IRDA_3PH_14HP, IRDA_3PH_13HP}
Solar == {IRDA_3PH_SOLAR_RAW, IRDA_3PH_SOLAR_PARSED}
Infrared3 == {IR_3PH_RAW, IR_3PH_PARSED}
TwoStage == ThreePhase \cup HP

St(step, full) == [step |-> step, full |-> full]

\* the steps of a variant's script: the command sent and the bytes asked for
Script(t) ==
  CASE t \in OnePhase -> <<St("cmd1", 30), St("cmd2", 30), St("cmd3", 30),
                           St("cmd4", 30), St("cmd5", 30)>>
    [] t \in ThreePhase -> <<St("handshake", 30), St("second", 79)>>
    [] t \in HP -> <<St("handshake", 45), St("second", 71)>>
    [] t \in Solar -> <<St("handshake", 30), St("second", 79), St("export", 79)>>
    [] t \in Infrared3 -> <<St("irfixed", 50)>>
    [] OTHER -> <<>>

\* the bytes the read of `step` ended with; <<>> also when it never ran
Got(step) == JoinBytes(Pick(log, "rx", step))

\* the read of `step` ran
DidRead(step) == Pick(log, "rx", step) # <<>>

\* some bytes of the command of `step` were written
DidSend(step) == Pick(log, "tx", step) # <<>>

\* the bytes the meter sent in answer to `step`
Answer(step) == JoinBytes(Pick(log, "meter", step))

\* the read of the k-th step of the script collected all it asked for
StepFull(t, k) ==
  /\ DidRead(Script(t)[k].step)
  /\ Len(Got(Script(t)[k].step)) >= Script(t)[k].full

\* the line carried nothing but the meter's answers
QuietLine == PickAll(log, "noise") = <<>>

Done == pc = "done" /\ comm /\ hardware

-----------------------------------------------------------------------------
(* C1 *)

\* the meter answered the command of every step, each with exactly the full
\* length of the step
AnsweredInFull(t) ==
  \A k \in DOMAIN Script(t) :
    /\ Len(Pick(log, "meter", Script(t)[k].step)) = 1
    /\ Len(Answer(Script(t)[k].step)) = Script(t)[k].full

RECURSIVE JoinAnswers(_, _)
JoinAnswers(t, k) ==
  IF k > Len(Script(t)) THEN <<>>
  ELSE Answer(Script(t)[k].step) \o JoinAnswers(t, k + 1)

\* the five responses in order for 1-phase, the last response otherwise
ExpectedCapture(t) ==
  IF t \in OnePhase THEN JoinAnswers(t, 1)
  ELSE Answer(Script(t)[Len(Script(t))].step)

\* C1: for the 1-phase, 3-phase, HP and 3-phase-infrared variants, when the
\* meter answers every command of the script with a response of exactly the
\* full length (and the line carries nothing else), readMeter returns true,
\* data.isValid is true and data.rawData is the five responses joined in order
\* (1-phase), the final response (3-phase, HP) or the response (infrared).
C1_FullAnswersGiveCapture ==
  (Done /\ type \in (OnePhase \cup TwoStage \cup Infrared3)
     /\ AnsweredInFull(type) /\ QuietLine)
  => (ret /\ data.isValid /\ data.rawData = ExpectedCapture(type))

C1_Witness ==
  /\ Done /\ type = IRDA_3PH_14HP /\ AnsweredInFull(type) /\ QuietLine
  /\ Len(data.rawData) = 71


-----------------------------------------------------------------------------
(* C2 *)

\* C2 as stated: for every variant, whenever a read ends with isValid = true,
\* every step of the variant's script received at least the bytes it asked for.
C2_ValidMeansEveryStepFull ==
  (Done /\ data.isValid) => \A k \in DOMAIN Script(type) : StepFull(type, k)

\* C2 as amended: whenever a read ends with isValid = true, every step
\* received the bytes it asked for in the 3-phase, HP and 3-phase-infrared
\* scripts; the two steps of the import exchange did in the solar script (the
\* export step may have failed); and at least one of the five steps did in the
\* 1-phase scripts (not necessarily all five).
C2_ValidMeansRequiredStepsFull ==
  (Done /\ data.isValid) =>
     CASE type \in (TwoStage \cup Infrared3) ->
            \A k \in DOMAIN Script(type) : StepFull(type, k)
       [] type \in Solar -> StepFull(type, 1) /\ StepFull(type, 2)
       [] type \in OnePhase -> \E k \in DOMAIN Script(type) : StepFull(type, k)
       [] OTHER -> FALSE

C2_Witness ==
  /\ Done /\ data.isValid /\ type = IRDA_1PH_RAW
  /\ StepFull(type, 2) /\ ~StepFull(type, 1) /\ ~StepFull(type, 5)

-----------------------------------------------------------------------------
(* C3 *)

\* everything the reads of the call collected, in order
AllReceived == JoinBytes(PickAll(log, "rx"))

\* the packets of the steps from k on whose read collected all 30 bytes
RECURSIVE FullPackets(_, _)
FullPackets(t, k) ==
  IF k > Len(Script(t)) THEN <<>>
  ELSE (IF StepFull(t, k) THEN Got(Script(t)[k].step) ELSE <<>>)
       \o FullPackets(t, k + 1)

\* C3 as stated: in the 1-phase scripts the bytes received in each step are
\* appended to the capture even when fewer than 30 arrived, so the read is
\* valid iff at least one byte was received over the five steps.
C3_ShortPacketsAppended ==
  (Done /\ type \in OnePhase) =>
     /\ data.isValid <=> Len(AllReceived) > 0
     /\ data.isValid => data.rawData = AllReceived

\* C3 as amended: in the 1-phase scripts the bytes received in a step are
\* appended to the capture only when all 30 bytes asked for arrived before the
\* timeout (a shorter packet is dropped), so the read is valid iff at least
\* one of the five steps received its 30 bytes, and the capture then is the
\* complete packets joined in order.
C3_OnlyFullPacketsAppended ==
  (Done /\ type \in OnePhase) =>
     /\ data.isValid <=> \E k \in DOMAIN Script(type) : StepFull(type, k)
     /\ data.isValid <=> Len(responseData) > 0
     /\ ret = data.isValid
     /\ data.isValid => data.rawData = FullPackets(type, 1)

C3_Witness ==
  /\ Done /\ type = IR_1PH_PARSED /\ data.isValid
  /\ Len(Got("cmd3")) = 30 - ShortBy
  /\ Len(data.rawData) < Len(AllReceived)

-----------------------------------------------------------------------------
(* C4 *)

\* C4 as stated: a 3-phase-optical read is valid iff the read that follows
\* command B returned at least one byte.
C4_ValidIffAnyFinalByte ==
  (Done /\ type \in ThreePhase) => (data.isValid <=> Len(Got("second")) >= 1)

\* C4 as amended: a 3-phase-optical read is valid iff the read that follows
\* command B returned all 79 bytes it asked for; that read only takes place
\* after a handshake response of the full 30 bytes.
C4_ValidIffFullFinalPacket ==
  (Done /\ type \in ThreePhase) =>
     /\ data.isValid <=> StepFull(type, 2)
     /\ ret = data.isValid
     /\ DidRead("second") => StepFull(type, 1)

C4_Witness ==
  /\ Done /\ type = IRDA_3PH_PARSED
  /\ Len(Got("second")) = 79 - ShortBy
  /\ ~data.isValid

-----------------------------------------------------------------------------
(* C5 *)

\* the write of the command of `step` was cut short
WriteIncomplete(step) ==
  \E k \in DOMAIN log :
    /\ log[k].ev = "tx" /\ log[k].step = step
    /\ Len(log[k].bytes) < log[k].n

\* the call waited delay(ms)
Waited(ms) ==
  \E k \in DOMAIN log : log[k].ev = "delay" /\ log[k].n = ms

\* the handshake of a two-stage exchange failed: incomplete write, or a
\* response shorter than asked for when the timeout expired
HandshakeFailed ==
  /\ DidSend("handshake")
  /\ WriteIncomplete("handshake") \/ ~StepFull(type, 1)

-----------------------------------------------------------------------------
(* C6 *)

\* the 3-phase template B with positions 2..4 taken from offsets 22..24 of hs
Spliced3(hs) ==
  [k \in 1..11 |-> IF k - 1 \in 2..4 THEN At(hs, (k - 1) + 20)
                   ELSE IRDA_3PH_MSG2[k]]

\* the HP derived template with positions 2..9 taken from offsets 32..39 of hs
SplicedHP(hs) ==
  [k \in 1..16 |-> IF k - 1 \in 2..9 THEN At(hs, (k - 1) + 30)
                   ELSE IRDA_3PH_MSG7[k]]

\* the second command of the exchange of variant t, given the handshake response
SecondCommand(t, hs) == IF t \in HP THEN SplicedHP(hs) ELSE Spliced3(hs)

\* the least handshake length the splice reads from
SpliceNeeds(t) == IF t \in HP THEN 40 ELSE 25

\* C6: whenever a second command is transmitted, the handshake response is
\* long enough to splice from (25 bytes for 3-phase, 40 for HP), the command
\* buffer equals the template with exactly the splice positions replaced by
\* the handshake bytes (3-phase: positions 2..4 from offsets 22..24; HP:
\* positions 2..9 from offsets 32..39), the bytes on the wire are the bytes of
\* that buffer, and the static templates are as they were defined, after any
\* sequence of reads.
C6_SecondCommandIsSplicedTemplate ==
  /\ msgs = ProtocolMessages
  /\ \A k \in DOMAIN log :
       (log[k].ev = "tx" /\ log[k].step = "second") =>
          /\ Len(Got("handshake")) >= SpliceNeeds(type)
          /\ log[k].n = Len(SecondCommand(type, Got("handshake")))
          /\ log[k].bytes =
               Take(SecondCommand(type, Got("handshake")), Len(log[k].bytes))
  /\ pc \in {"IRDA3PH_second", "IRDA3PH_finalRead", "IRDA3PHHP_second",
             "IRDA3PHHP_finalRead"} =>
       msg2 = SecondCommand(type, Got("handshake"))

C6_Witness ==
  /\ pc = "IRDA3PH_finalRead" /\ type = IRDA_3PH_PARSED
  /\ ~WriteIncomplete("second")
  /\ JoinBytes(Pick(log, "tx", "second")) = msg2
  /\ SubSeq(msg2, 3, 5) = SubSeq(Got("handshake"), 23, 25)
  /\ SubSeq(msg2, 3, 5) # SubSeq(IRDA_3PH_MSG2, 3, 5)

-----------------------------------------------------------------------------
(* C7 *)

\* C7: a solar read is valid iff its import (plain 3-phase) exchange was valid.
\* If the import fails, the export command is never sent and the read returns
\* false.  If it succeeds, the read returns true; a failed or short export
\* step leaves the capture equal to the import bytes, a successful one leaves
\* it equal to the import bytes, then the export label, then the export bytes.
C7_SolarValidityFromImport ==
  (Done /\ type \in Solar) =>
     /\ ret = data.isValid
     /\ data.isValid <=> (StepFull(type, 1) /\ StepFull(type, 2))
     /\ ~data.isValid => ~DidSend("export")
     /\ data.isValid =>
          data.rawData = IF StepFull(type, 3)
                           THEN Got("second") \o ExportLabel \o Got("export")
                           ELSE Got("second")

C7_Witness ==
  /\ Done /\ type = IRDA_3PH_SOLAR_RAW /\ data.isValid
  /\ DidRead("export") /\ ~StepFull(type, 3) /\ Len(Got("export")) > 0
  /\ data.rawData = Got("second")

-----------------------------------------------------------------------------
(* C8 *)

Steps ==
  {"cmd1", "cmd2", "cmd3", "cmd4", "cmd5", "handshake", "second", "export",
   "irfixed"}

\* C8: within one readMeter call no command is transmitted a second time:
\* each command of the script is written at most once (the infrared fixed
\* command at most once, byte by byte), and no two writes carry the same bytes.
C8_NoCommandSentTwice ==
  /\ \A st \in Steps \ {"irfixed"} : Len(Pick(log, "tx", st)) <= 1
  /\ JoinBytes(Pick(log, "tx", "irfixed")) \in {<<>>, IR_3PH_MSG}
  /\ \A a, b \in DOMAIN log :
       (log[a].ev = "tx" /\ log[b].ev = "tx" /\ a # b) =>
          log[a].bytes # log[b].bytes

C8_Witness ==
  /\ Done /\ type = IRDA_1PH_RAW /\ ~ret
  /\ Len(PickAll(log, "tx")) = 5
  /\ Len(Got("cmd1")) = 30 - ShortBy

-----------------------------------------------------------------------------
(* C9 *)

\* C9: readMeter called with an unrecognized variant (METER_TYPE_UNKNOWN or a
\* value outside the enumeration; a step that leaves "idle" other than a
\* connection test) fails at once: the call ends in the same step with result
\* false and isValid = false, neither channel is configured,
\* the enable line of the optical front end keeps its level and no byte is
\* written to a meter channel.
C9_UnknownVariantFailsAtOnce ==
  [][(pc = "idle" /\ pc' \notin {"idle", "tested"} /\ type' \notin 1..12) =>
       /\ pc' = "done"
       /\ ret' = FALSE
       /\ data'.isValid = FALSE
       /\ irdaEn' = irdaEn /\ irdaBaud' = irdaBaud /\ irBaud' = irBaud
       /\ PickAll(log', "begin") = <<>>
       /\ PickAll(log', "line") = <<>>
       /\ PickAll(log', "tx") = <<>>]_vars

C9_Witness ==
  /\ Done /\ type = METER_TYPE_OUTSIDE /\ ~ret /\ ~data.isValid
  /\ PickAll(log, "clear") # <<>>

-----------------------------------------------------------------------------
(* C10 *)

\* the length gate of each variant parser
MinimumOf(parser) ==
  CASE parser \in {"parse1PhaseIRDA", "parse1PhaseIR"} -> 120
    [] parser = "parse3PhaseIRDA" -> 79
    [] parser = "parse3PhaseHPIRDA" -> 71
    [] parser = "parse3PhaseIR" -> 43

\* the variant parser a pending call will run, "none" if it will run none
WillRun ==
  IF entry \in DirectEntries THEN entry
  ELSE IF entry = "parseAndPrint" /\ parserComm /\ arg.isValid
          /\ Len(arg.rawData) > 0 /\ ParserOf(arg.type) # "default"
    THEN ParserOf(arg.type)
  ELSE "none"

LongEnough(parser) == Len(arg.rawData) >= MinimumOf(parser)

\* C10: every call that runs a variant parser, on any capture content,
\* returns true exactly when the capture is at least as long as the variant's
\* minimum (120 for 1-phase, 79 for 3-phase, 71 for HP, 43 for 3-phase
\* infrared); a call that returns true leaves the record valid, whatever
\* fields the field-level length checks skipped; and a record that was not
\* valid before the call is valid after it exactly when the capture is long
\* enough.
C10_ValidIffLongEnough ==
  [][(dpc = "called" /\ WillRun # "none")
       => /\ ran' = WillRun
          /\ success' = LongEnough(WillRun)
          /\ success' => parsed'.isValid
          /\ ~parsed.isValid => (parsed'.isValid = LongEnough(WillRun))]_vars

\* a 43-byte capture of 0xFF bytes passed the gate of the 3-phase infrared
\* parser: the tamper fields, behind a field-level check for more than 43
\* bytes, are at their defaults and the record is valid
C10_Witness ==
  /\ dpc = "returned"
  /\ entry = "parse3PhaseIR"
  /\ arg.rawData = Capture("ones", 43)
  /\ success
  /\ parsed.isValid
  /\ parsed.electrical.tamperCount = 0
  /\ parsed.energy.kwh # ZeroFloat

-----------------------------------------------------------------------------
(* C11 *)

\* a call has returned from the variant parser `ran`
Decoded == dpc = "returned" /\ ran # "none"

\* C11: when the capture is shorter than the variant's minimum, the call
\* returns failure and the record it leaves is not valid and has every field
\* at its default value.
C11_ShortCaptureGivesDefaultRecord ==
  (Decoded /\ ~LongEnough(ran)) => (~success /\ parsed = ParsedMeterData)

-----------------------------------------------------------------------------
(* C12 *)

\* the call of the variant parser e on arguments a, writing to rec
RunDirect(e, a, rec, cm) ==
  CASE e = "parse1PhaseIRDA" -> parse1PhaseIRDA(a.rawData, rec, cm)
    [] e = "parse3PhaseIRDA" -> parse3PhaseIRDA(a.rawData, rec, cm)
    [] e = "parse3PhaseHPIRDA" ->
         parse3PhaseHPIRDA(a.rawData, rec, a.digitCount, cm)
    [] e = "parse1PhaseIR" -> parse1PhaseIR(a.rawData, rec, cm)
    [] e = "parse3PhaseIR" -> parse3PhaseIR(a.rawData, rec, cm)

\* C12: the record a variant parser leaves is a function of the capture and
\* the variant only: whatever the record held before the call, it is the
\* record the same call leaves in a record as constructed; and the call
\* prints nothing.
C12_DecodeIsFunctionOfCapture ==
  (dpc = "returned" /\ entry \in DirectEntries) =>
     /\ parsed = RunDirect(entry, arg, ParsedMeterData, parserComm).parsed
     /\ out = <<>>

-----------------------------------------------------------------------------
(* C13 *)

\* the unsigned 16-bit number at offset off of the capture, most significant
\* byte first
BE16(off) == At(arg.rawData, off) * 256 + At(arg.rawData, off + 1)

\* the 16-bit number n divided by 10^decimals
Tenths(n, decimals) ==
  IF n = 0 THEN ZeroFloat ELSE [v |-> [hi |-> 0, lo |-> n], d |-> decimals]

\* the unsigned 32-bit number at offset off, most significant byte first,
\* divided by 10^decimals
BE32Scaled(off, decimals) ==
  IF BE16(off) = 0 /\ BE16(off + 2) = 0 THEN ZeroFloat
  ELSE [v |-> [hi |-> BE16(off), lo |-> BE16(off + 2)], d |-> decimals]

\* the 3-phase parser has decoded a capture
Decoded3Phase == Decoded /\ ran = "parse3PhaseIRDA" /\ success

FieldScaling ==
  /\ Len(arg.rawData) >= 79
  /\ parsed.electrical.voltageR = Tenths(BE16(27), 1)
  /\ parsed.electrical.voltageY = Tenths(BE16(29), 1)
  /\ parsed.electrical.voltageB = Tenths(BE16(31), 1)
  /\ parsed.electrical.currentR = Tenths(BE16(33), 2)
  /\ parsed.electrical.currentY = Tenths(BE16(35), 2)
  /\ parsed.electrical.currentB = Tenths(BE16(37), 2)
  /\ parsed.energy.kwh = BE32Scaled(43, 2)

\* the bytes 09 01 are at the offset of voltage R
Has0901 == At(arg.rawData, 27) = 9 /\ At(arg.rawData, 28) = 1

\* C13 as stated: the scaling rule, and bytes 09 01 decode to 231.3 V.
C13_ScalingWith0901As2313 ==
  Decoded3Phase =>
     /\ FieldScaling
     /\ Has0901 => parsed.electrical.voltageR = Tenths(2313, 1)

\* C13 as amended: for every 3-phase capture of at least 79 bytes the
\* voltages are the 16-bit values at offsets 27/29/31 divided by 10, the
\* currents the 16-bit values at offsets 33/35/37 divided by 100 and kWh the
\* 32-bit value at offset 43 divided by 100, most significant byte first;
\* bytes 09 01 (2305) give 230.5 V, bytes 09 09 (2313) give 231.3 V.
C13_ScalingWith0901As2305 ==
  Decoded3Phase =>
     /\ FieldScaling
     /\ Has0901 => parsed.electrical.voltageR = Tenths(2305, 1)
     /\ (At(arg.rawData, 29) = 9 /\ At(arg.rawData, 30) = 9)
          => parsed.electrical.voltageY = Tenths(2313, 1)

C13_Witness ==
  /\ Decoded3Phase
  /\ arg.rawData = Capture("example", 79)
  /\ parsed.electrical.voltageR = Tenths(2305, 1)
  /\ parsed.electrical.voltageY = Tenths(2313, 1)
  /\ parsed.energy.kwh # ZeroFloat

-----------------------------------------------------------------------------
(* C14 *)

\* no byte reached either receiver during the call
SilentMeter == JoinBytes(PickAll(log, "meter")) = <<>> /\ QuietLine

\* parseAndPrint on the MeterData the read has left
ParseAfterRead == parseAndPrint(data, type, parserComm)

\* C14: when the meter sends no bytes at all, readMeter returns false with
\* isValid = false for every variant, and a parseAndPrint on that MeterData
\* returns false without running a variant parser.
C14_SilentMeterFailsReadAndParse ==
  (Done /\ SilentMeter) =>
     /\ ~ret
     /\ ~data.isValid
     /\ ~ParseAfterRead.ret
     /\ ParseAfterRead.ran = "none"

C14_Witness ==
  /\ Done /\ SilentMeter /\ type = IRDA_3PH_PARSED
  /\ DidSend("handshake") /\ DidRead("handshake")
  /\ ~ret /\ ~ParseAfterRead.ret /\ ParseAfterRead.ran = "none"

-----------------------------------------------------------------------------
(* C15 *)

\* a meter command has been handled
Handled == pc = "handled" /\ bleCommand \in MeterCommands

\* C15: for every command with decoded output, whenever readMeter returned
\* success the capture is at least as long as the minimum of the variant
\* parser that parseAndPrint runs on it, and no "Packet too short" error
\* follows the read.
C15_SuccessfulReadIsLongEnough ==
  (Handled /\ ret /\ shouldParseData(bleCommand)
     /\ ParseAfterRead.ran # "none")
  => /\ Len(data.rawData) >= MinimumOf(ParseAfterRead.ran)
     /\ \A k \in DOMAIN printed : printed[k].text # "ERROR: Packet too short"

-----------------------------------------------------------------------------
(* C16 *)

\* README, Meter Reading Commands: the meter type and the output of each
\* command
Documented(c) ==
  CASE c = Cmd.IRDA1 -> [type |-> IRDA_1PH_RAW, output |-> "Raw data"]
    [] c = Cmd.IRDA1P -> [type |-> IRDA_1PH_PARSED, output |-> "Parsed data"]
    [] c = Cmd.IRDA3 -> [type |-> IRDA_3PH_RAW, output |-> "Raw data"]
    [] c = Cmd.IRDA3P -> [type |-> IRDA_3PH_PARSED, output |-> "Parsed data"]
    [] c = Cmd.IRDA3P14HP -> [type |-> IRDA_3PH_14HP, output |-> "Parsed data"]
    [] c = Cmd.IRDA3P13HP -> [type |-> IRDA_3PH_13HP, output |-> "Parsed data"]
    [] c = Cmd.IRDA3SR -> [type |-> IRDA_3PH_SOLAR_RAW, output |-> "Raw data"]
    [] c = Cmd.IRDA3SP ->
         [type |-> IRDA_3PH_SOLAR_PARSED, output |-> "Parsed data"]
    [] c = Cmd.IRIR1 -> [type |-> IR_1PH_RAW, output |-> "Raw data"]
    [] c = Cmd.IRIR1P -> [type |-> IR_1PH_PARSED, output |-> "Parsed data"]
    [] c = Cmd.IRIR3 -> [type |-> IR_3PH_RAW, output |-> "Raw data"]
    [] c = Cmd.IRIR3P -> [type |-> IR_3PH_PARSED, output |-> "Parsed data"]

\* the lines that close the answer to a meter command
StatusLines == printBatteryStatus \o printDataReceived(getMeterTypeString(type))

\* the handler sent what a variant parser decoded from the capture
SentParsed ==
  /\ ParseAfterRead.ran # "none"
  /\ printed = Texts(ParseAfterRead.out) \o StatusLines

\* the handler sent the capture as it is
SentRaw == printed = <<Bytes(data.rawData)>> \o StatusLines

\* C16: each of the 12 documented commands starts a read of the documented
\* meter type, and after a successful read the device sends decoded data
\* exactly for the commands documented with "Parsed data" and the raw capture
\* for those documented with "Raw data".
C16_OutputAsDocumented ==
  Handled =>
     /\ type = Documented(bleCommand).type
     /\ ret => IF Documented(bleCommand).output = "Parsed data"
                 THEN SentParsed /\ ~SentRaw
                 ELSE SentRaw /\ ~SentParsed

-----------------------------------------------------------------------------
(* C17 *)

\* the validator of each setting
IsValidFor(f, v) ==
  CASE f = "bluetoothName" -> isValidBluetoothName(v)
    [] f = "ssid" -> isValidSSID(v)
    [] f = "password" -> Len(v) > 0
    [] f = "ipAddress" -> isValidIP(v)
    [] f = "port" -> isValidPort(v)

\* C17: after a configuration command made of the command name immediately
\* followed by a valid value, the setting holds exactly that value, the whole
\* text after the command name.
C17_StoresWholeValue ==
  \A f \in Settings, v \in ConfigValues :
    (pc = "handled" /\ bleCommand = ConfigNames[f] \o v /\ IsValidFor(f, v))
    => config[f] = v

-----------------------------------------------------------------------------
(* C18 *)

\* the bytes of the test command that reached the wire
TestWritten == JoinBytes(Pick(log, "tx", "test"))

\* the bytes the test asked to write: the first 1-phase command with CR LF on
\* the optical channel, the infrared fixed command on the infrared channel
TestCommand ==
  IF \E k \in DOMAIN log : log[k].ev = "begin" /\ log[k].chan = "IRDA"
    THEN msgs.CMD[1] \o CRLF
    ELSE msgs.IR

\* C18: a connection test returns true when its command was written in full
\* and false when the write failed or was partial, and it performs no read.
C18_TestReportsWrite ==
  pc = "tested" =>
     /\ ret <=> (TestWritten = TestCommand)
     /\ PickAll(log, "rx") = <<>>

-----------------------------------------------------------------------------
(* C19 *)

Optical == {IRDA_1PH_RAW, IRDA_1PH_PARSED} \cup ThreePhase \cup HP \cup Solar

\* the positions in the log of the entries of kind ev
Where(ev) == {k \in DOMAIN log : log[k].ev = ev}

First(S) == CHOOSE k \in S : \A j \in S : k <= j

Last(S) == CHOOSE k \in S : \A j \in S : k >= j

\* C19: in a read of an optical variant the front end has been disabled
\* before the first command byte is written, and it is enabled when readMeter
\* returns, whichever way the exchange went.
C19_FrontEndDisabledThenEnabled ==
  (type \in Optical /\ pc # "idle") =>
     /\ Where("tx") # {} =>
          /\ log[First(Where("tx"))].en = FALSE
          /\ \E j \in Where("line") :
               j < First(Where("tx")) /\ log[j].en = FALSE
     /\ Done =>
          /\ irdaEn
          /\ Where("line") # {}
          /\ log[Last(Where("line"))].en = TRUE

\* a 3-phase read whose handshake timed out has returned
C19_Witness ==
  /\ Done /\ type = IRDA_3PH_RAW
  /\ DidSend("handshake") /\ DidRead("handshake") /\ ~StepFull(type, 1)
  /\ ~ret /\ irdaEn
  /\ log[First(Where("tx"))].en = FALSE

-----------------------------------------------------------------------------
(* C20 *)

\* the baud rate each variant's script configures
BaudOf(t) == IF t \in ThreePhase \cup HP \cup Solar THEN BAUD_RATE_9600
             ELSE BAUD_RATE_2400

\* C20: in every read the channel of the variant is configured with the
\* variant's baud rate before the first command byte is written, and every
\* command byte is written to and every response byte read from that channel.
C20_OneConfiguredChannel ==
  (type \in (METER_TYPE_UNKNOWN + 1)..IR_3PH_PARSED /\ pc # "idle") =>
     /\ \A k \in Where("tx") \cup Where("rx") : log[k].chan = MeterChan(type)
     /\ Where("tx") # {} =>
          \E j \in Where("begin") :
            /\ j < First(Where("tx"))
            /\ log[j].chan = MeterChan(type)
            /\ log[j].n = BaudOf(type)

-----------------------------------------------------------------------------
(* C21 *)

\* the time since the last recorded activity, and the conditions under which
\* the device is due to sleep
SinceActivity(p, now) == now - p.lastActivityTime

SleepDue(p, now) ==
  \/ p.buttonLongPressDetected
  \/ p.battery.levelPercent < 10
  \/ SinceActivity(p, now) > p.sleepTimeoutMs

\* C21: after each update(), shouldSleep() is true iff a long button press is
\* detected, or the battery level is below 10 %, or more than sleepTimeoutMs
\* have elapsed since the last recorded activity; otherwise the state is
\* IDLE when more than 80 % of the timeout has elapsed and ACTIVE when not;
\* POWER_DEEP_SLEEP is never the current state.
C21_SleepIffDue ==
  [][(\E averageReading \in Readings, currentlyPressed \in BOOLEAN :
        update(averageReading, currentlyPressed))
     => LET p == powerMgr'
            now == millis'
        IN /\ shouldSleep(p) <=> SleepDue(p, now)
           /\ ~SleepDue(p, now)
                => p.currentState =
                     IF SinceActivity(p, now) * 10 > p.sleepTimeoutMs * 8
                     THEN POWER_IDLE ELSE POWER_ACTIVE
           /\ p.currentState # POWER_DEEP_SLEEP]_vars

-----------------------------------------------------------------------------
(* C22 *)

\* C22: when an update started by performUpdate downloads and installs the
\* firmware (HTTP_UPDATE_OK), the device then reboots into the new firmware:
\* by the time the loop waits for the next command, the installed image is
\* the running one.
C22_InstalledFirmwareRuns ==
  (pc = "idle" /\ ota.flash = "new") => ota.running = "new"

-----------------------------------------------------------------------------
(* C23 *)

\* the thread of control is inside a readMeter call
InCall == pc \notin {"idle", "done", "tested", "handled"}

\* what a finished response wait has collected, and when it ended
WaitEnded ==
  pktRead.pc = "done"
    => /\ \/ Len(pktRead.data) = pktRead.expectedBytes
          \/ pktRead.elapsed >= pktRead.timeoutMs
       /\ pktRead.elapsed < pktRead.timeoutMs + MaxDelay
       /\ pktRead.ok <=> Len(pktRead.data) = pktRead.expectedBytes

\* no read, turn by turn or in one step, holds more than the byte limit
WithinLimit ==
  /\ Len(pktRead.data) <= pktRead.expectedBytes
  /\ \A k \in DOMAIN log : log[k].ev = "rx" => Len(log[k].bytes) <= log[k].n

\* a wait whose limit is reached or whose timeout has expired takes no
\* further turn
EndsAtOnce ==
  [][pktRead.pc = "loop"
       /\ \/ Len(pktRead.data) >= pktRead.expectedBytes
          \/ pktRead.elapsed >= pktRead.timeoutMs
     => pktRead'.pc = "done"]_pktRead

\* C23: every readMeter call returns after finitely many steps for every
\* meter behaviour (silent, partial responses, an endless byte stream); each
\* response wait ends as soon as the byte limit is reached or the 2000 ms
\* timeout expires, whichever comes first, and never collects more than the
\* byte limit.
C23_ReadsTerminateWithinLimits ==
  /\ InCall ~> pc = "done"
  /\ (pktRead.pc = "loop") ~> (pktRead.pc = "done")
  /\ [](WaitEnded /\ WithinLimit)
  /\ EndsAtOnce

\* an endless stream was cut at the limit, before the timeout
C23_Witness ==
  /\ pktRead.pc = "done"
  /\ pktRead.endless
  /\ Len(pktRead.data) = pktRead.expectedBytes
  /\ pktRead.elapsed < pktRead.timeoutMs

-----------------------------------------------------------------------------
(* C24 *)

\* the writes of the call, in the order they were made
Writes == PickAll(log, "tx")

\* C24: the 1-phase script always transmits all five catalog commands, in
\* catalog order, whatever the outcome of each response read: a finished
\* 1-phase call has made exactly five writes, the k-th being catalog
\* command k.
C24_AllFiveCommandsInOrder ==
  (Done /\ type \in OnePhase)
    => /\ Len(Writes) = 5
       /\ \A k \in 1..5 :
            /\ Writes[k].step = CmdStep(k - 1)
            /\ Take(Writes[k].bytes, 9) = IRDA_1PH_CMD_STRINGS[k]

\* a finished 1-phase call in which the reads of the first and the third
\* command fell short while the second and the last were answered in full
C24_Witness ==
  /\ Done
  /\ type \in OnePhase
  /\ DidRead("cmd1") /\ Len(Got("cmd1")) < 30
  /\ Len(Got("cmd2")) = 30
  /\ DidRead("cmd3") /\ Len(Got("cmd3")) < 30
  /\ Len(Got("cmd5")) = 30

-----------------------------------------------------------------------------
(* C25 *)

\* the positions in the log of the entries of kind ev of a step
Entries(ev, step) ==
  {k \in DOMAIN log : log[k].ev = ev /\ log[k].step = step}

\* the milliseconds of delay() logged at the positions a .. b - 1
RECURSIVE DelaySum(_, _)
DelaySum(a, b) ==
  IF a >= b THEN 0
  ELSE (IF log[a].ev = "delay" THEN log[a].n ELSE 0) + DelaySum(a + 1, b)

\* C25: in the 3-phase and HP exchanges the second command is written only
\* after the handshake read has completed and 1500 ms of delay have passed
\* since; in the 1-phase scripts each response read starts only after the
\* 200 ms that follow its command; in the 3-phase infrared script the read
\* starts only after all five command bytes were written and 500 ms have
\* passed.
C25_SettleDelaysBeforeNextStep ==
  /\ \A s \in Entries("tx", "second") :
       \E h \in Entries("rx", "handshake") :
         h < s /\ DelaySum(h + 1, s) >= 1500
  /\ \A c \in {"cmd1", "cmd2", "cmd3", "cmd4", "cmd5"} :
       \A r \in Entries("rx", c) :
         \E t \in Entries("tx", c) : t < r /\ DelaySum(t + 1, r) >= 200
  /\ \A r \in Entries("rx", "irfixed") :
       LET tx == {t \in Entries("tx", "irfixed") : t < r}
       IN /\ JoinBytes(Pick(log, "tx", "irfixed")) = IR_3PH_MSG
          /\ tx = Entries("tx", "irfixed")
          /\ DelaySum(Last(tx) + 1, r) >= 500

\* a finished 3-phase exchange whose second command was written and
\* answered
C25_Witness ==
  /\ Done
  /\ type \in ThreePhase
  /\ DidSend("second")
  /\ DidRead("second")

-----------------------------------------------------------------------------
(* C26 *)

\* C26: every command byte transmitted on the optical channel during a read
\* is transmitted while the optical front end is disabled; this includes the
\* solar export command and the commands of the 1-phase infrared script.
C26_OpticalWritesWhileDisabled ==
  pc \notin {"idle", "tested"}
    => \A k \in DOMAIN log :
         (log[k].ev = "tx" /\ log[k].chan = "IRDA" /\ log[k].bytes # <<>>)
           => ~log[k].en

-----------------------------------------------------------------------------
(* C27 *)

\* the 1-phase catalog as text, and the ASCII codes of a text made of ':',
\* digits and capital letters
Catalog ==
  <<":00413BC4", ":00423AC5", ":004339C6", ":004537C8", ":004636C9">>

AsciiCode(ch) ==
  IF ch = ":" THEN 58
  ELSE IF \E d \in 1..10 : SubSeq("0123456789", d, d) = ch
  THEN 47 + (CHOOSE d \in 1..10 : SubSeq("0123456789", d, d) = ch)
  ELSE 64 + (CHOOSE d \in 1..26 :
               SubSeq("ABCDEFGHIJKLMNOPQRSTUVWXYZ", d, d) = ch)

Ascii(str) == [k \in 1..Len(str) |-> AsciiCode(SubSeq(str, k, k))]

\* the writes of step j of a 1-phase script
CommandWrites(j) == Entries("tx", CmdStep(j - 1))

\* C27 as stated: the byte sequence written in step j of the 1-phase script
\* is exactly the 9 ASCII characters of catalog command j, with no byte
\* added before or after.
C27_WritesCommandOnly ==
  \A j \in 1..5 : \A k \in CommandWrites(j) : log[k].bytes = Ascii(Catalog[j])

\* C27 as the code has it: the byte sequence written in step j of the
\* 1-phase script is the 9 ASCII characters of catalog command j followed by
\* CR and LF, 11 bytes, with no byte before the command.
C27_WritesCommandAndLineEnd ==
  \A j \in 1..5 :
    \A k \in CommandWrites(j) :
      log[k].bytes = Ascii(Catalog[j]) \o <<13, 10>>

\* a finished 1-phase call that has written the last command
C27_Witness ==
  /\ pc = "done"
  /\ type \in OnePhase
  /\ CommandWrites(5) # {}

-----------------------------------------------------------------------------
(* C28 *)

\* the decimal text of a nibble, and of the two nibbles of a byte
NibbleText(n) == IF n < 10 THEN <<48 + n>> ELSE <<49, 48 + (n - 10)>>

BCDText(b) == NibbleText(b \div 16) \o NibbleText(b % 16)

\* hour, minute and second of the capture, from offset off on, as HH:MM:SS
TimeText(off) ==
  BCDText(At(arg.rawData, off)) \o <<58>>
    \o BCDText(At(arg.rawData, off + 1)) \o <<58>>
    \o BCDText(At(arg.rawData, off + 2))

\* C28: for every 3-phase and HP capture that passes the length gate, the
\* decoded timestamp consists of hour, minute and second, each the BCD decode
\* of its byte (bytes 21, 22, 23 for 3-phase; 31, 32, 33 for HP), for every
\* value of those bytes including 0x00.
C28_TimestampHasSeconds ==
  /\ (Decoded /\ ran = "parse3PhaseIRDA" /\ LongEnough(ran))
       => parsed.info.timestamp = TimeText(21)
  /\ (Decoded /\ ran = "parse3PhaseHPIRDA" /\ LongEnough(ran))
       => parsed.info.timestamp = TimeText(31)

-----------------------------------------------------------------------------
(* C29 *)

\* day, month and year of the capture, from offset off on, as DD:MM:YY
DateText(off) ==
  BCDText(At(arg.rawData, off)) \o <<58>>
    \o BCDText(At(arg.rawData, off + 1)) \o <<58>>
    \o BCDText(At(arg.rawData, off + 2))

\* the offset of the date in the captures of a parser
DateOffset(p) ==
  CASE p = "parse3PhaseIRDA" -> 24
    [] p = "parse3PhaseHPIRDA" -> 34
    [] p = "parse3PhaseIR" -> 10

\* C29: BCD decode of a byte whose nibbles are both in 0..9 yields the two
\* characters of the high-nibble digit and the low-nibble digit (0x14 gives
\* "14", 0x00 gives "00"); a byte with a nibble above 9 is never rejected and
\* never makes decode fail, its nibble values are emitted literally.
C29_BCDDecodeIsLiteral ==
  /\ \A b \in 0..255 :
       /\ bcdToDecimal(b) = [tens |-> b \div 16, units |-> b % 16]
       /\ (b \div 16 <= 9 /\ b % 16 <= 9)
            => formatBCDDate(b, 0, 20)
                 = <<48 + (b \div 16), 48 + (b % 16), 58, 48, 48, 58, 49, 52>>
       /\ formatBCDDate(b, b, b) = BCDText(b) \o <<58>> \o BCDText(b)
                                     \o <<58>> \o BCDText(b)
  /\ (Decoded /\ ran \in {"parse3PhaseIRDA", "parse3PhaseHPIRDA",
                           "parse3PhaseIR"}
        /\ LongEnough(ran))
       => /\ success
          /\ parsed.info.date = DateText(DateOffset(ran))

\* a decoded 3-phase capture whose date bytes are 0xFF: the date is the
\* nibble values 15, written out
C29_Witness ==
  /\ Decoded
  /\ ran = "parse3PhaseIRDA"
  /\ success
  /\ At(arg.rawData, 24) = 255
  /\ parsed.info.date = <<49, 53, 49, 53, 58, 49, 53, 49, 53, 58, 49, 53, 49, 53>>

-----------------------------------------------------------------------------
(* C30 *)

\* a field of a binary parser: read when the capture is longer than `over`,
\* from the bytes first .. last (offsets from 0)
Fd(over, first, last) == [over |-> over, first |-> first, last |-> last]

\* the indexed reads of parse3PhaseIRDA, parse3PhaseHPIRDA and parse3PhaseIR
FieldReads(p) ==
  CASE p = "parse3PhaseIRDA" ->
         {Fd(21, 18, 20), Fd(26, 21, 23), Fd(29, 24, 26), Fd(33, 27, 32),
          Fd(39, 33, 38), Fd(47, 43, 46), Fd(59, 55, 58), Fd(61, 59, 60),
          Fd(69, 66, 68), Fd(70, 69, 69), Fd(72, 70, 71)}
    [] p = "parse3PhaseHPIRDA" ->
         {Fd(27, 23, 26), Fd(34, 31, 33), Fd(37, 34, 36), Fd(43, 38, 43),
          Fd(49, 44, 49), Fd(57, 49, 52), Fd(61, 53, 56)}
    [] p = "parse3PhaseIR" ->
         {Fd(10, 6, 9), Fd(15, 10, 14), Fd(19, 15, 18), Fd(23, 19, 22),
          Fd(27, 23, 26), Fd(31, 27, 30), Fd(32, 31, 31), Fd(35, 32, 33),
          Fd(43, 39, 42)}

\* the reads without those past the first 30 bytes
Reads_head(p, n) ==
  UNION {f.first..f.last : f \in {g \in FieldReads(p) : n > g.over /\ g.last < 30}}

\* the offsets a parser reads in a capture of n bytes
Reads(p, n) ==
  UNION {f.first..f.last : f \in {g \in FieldReads(p) : n > g.over}}

BinaryParsers == {"parse3PhaseIRDA", "parse3PhaseHPIRDA", "parse3PhaseIR"}

\* the capture with every byte the parser does not read set to zero
Masked(p, c) ==
  [j \in 1..Len(c) |-> IF (j - 1) \in Reads(p, Len(c)) THEN c[j] ELSE 0]

-----------------------------------------------------------------------------
(* C31 *)

\* a step in which handleCommand returns
HandlerReturns == bleCommand # "" /\ bleCommand' = ""

\* an update() that decides to sleep for inactivity alone, with the activity
\* time still the one the last handled command left
InactivitySleep ==
  /\ \E averageReading \in Readings, currentlyPressed \in BOOLEAN :
       update(averageReading, currentlyPressed)
  /\ shouldSleep(powerMgr')
  /\ ~checkManualSleepTrigger(powerMgr')
  /\ ~checkLowBatteryCondition(powerMgr')
  /\ handledAt # -1
  /\ powerMgr.lastActivityTime = handledAt

\* C31: when handleCommand returns, for any command, recognized or not, the
\* status LED is off, the inactivity timer is zero and the power state is
\* ACTIVE; and update() decides to sleep for inactivity only when more than
\* sleepTimeoutMs have passed since the last command was handled.
C31_HandledCommandResetsInactivity ==
  [][/\ HandlerReturns
          => /\ ~led'
             /\ powerMgr'.sleepTimer = U32Zero
             /\ powerMgr'.lastActivityTime = millis'
             /\ powerMgr'.currentState = POWER_ACTIVE
     /\ InactivitySleep => millis' - handledAt > powerMgr.sleepTimeoutMs]_vars

\* the device went to sleep for inactivity after a command was handled
C31_Witness ==
  /\ powerMgr.asleep
  /\ handledAt > 0
  /\ powerMgr.lastActivityTime = handledAt
  /\ ~powerMgr.buttonLongPressDetected
  /\ ~checkLowBatteryCondition(powerMgr)

-----------------------------------------------------------------------------
(* C32 *)

\* the handler sent the completion marker to the host
MarkerSent ==
  \E k \in DOMAIN printed : printed[k].text = "DATA RECEIVED: "

\* the handler reported a failure to the host
FailureReported ==
  \E k \in DOMAIN printed :
    printed[k].text \in {"Error: Failed to read meter data",
                         "ERROR: Failed to parse meter data",
                         "ERROR: Unsupported parsing type",
                         "ERROR: Invalid data or parser not initialized"}

\* the decode the command asked for succeeded, or it asked for none
DecodeSucceeded ==
  shouldParseData(bleCommand) => parseAndPrint(data, type, parserComm).ret

\* C32: when a meter command has been handled, the DATA RECEIVED marker was
\* sent only if the read succeeded and the decode the command asked for
\* succeeded too; a failed read or decode was reported as a failure and the
\* marker was not sent.
C32_MarkerOnlyAfterSuccess ==
  (pc = "handled" /\ parseMeterCommand(bleCommand) # METER_TYPE_UNKNOWN) =>
     /\ MarkerSent => ret /\ DecodeSucceeded
     /\ ~(ret /\ DecodeSucceeded) => FailureReported /\ ~MarkerSent

-----------------------------------------------------------------------------
(* C33 *)

\* the position of the last write of the command of `step` before entry k
SentBefore(step, k) ==
  {j \in Where("tx") : j < k /\ log[j].step = step}

\* what the channel received between the last write of the command of the
\* read at entry k and that read
ReceivedSince(k) ==
  LET from == Last(SentBefore(log[k].step, k))
      got == {j \in (from + 1)..(k - 1) :
                /\ log[j].ev \in {"meter", "noise"}
                /\ log[j].chan = log[k].chan}
  IN JoinBytes([n \in 1..Cardinality(got) |->
                 log[CHOOSE j \in got :
                       Cardinality({h \in got : h <= j}) = n]])

\* C33: the bytes a read captures as the response to a command are bytes the
\* channel received after that command was written: what was left unread by
\* an earlier step or received before the send is not part of them.
C33_ResponseReceivedAfterSend ==
  \A k \in Where("rx") :
    /\ SentBefore(log[k].step, k) # {}
    /\ Len(log[k].bytes) <= Len(ReceivedSince(k))
    /\ log[k].bytes = Take(ReceivedSince(k), Len(log[k].bytes))

-----------------------------------------------------------------------------
(* C34 *)

\* C34: no character of a command the host sent is lost: whatever arrived on
\* the Bluetooth channel has been handed to handleCommand or is still in the
\* receive buffer (line ends, which the reader filters, aside), also when it
\* arrived while an earlier command was being handled.
C34_NoCommandLost ==
  Filtered(arrived) = delivered \o Filtered(btRx)

-----------------------------------------------------------------------------
(* C35 *)

\* the read of the final data packet of this call collected all its bytes
FinalCaptured ==
  \E k \in Where("rx") :
    /\ log[k].step = "second"
    /\ Len(log[k].bytes) >= log[k].n

\* C35: a protocol specific reader that is called directly returns true only
\* if the final data packet was captured during that call, whatever the
\* MeterData it was given held, a set isValid flag included.
C35_TrueOnlyAfterCapture ==
  (pc = "done" /\ ret) => FinalCaptured

-----------------------------------------------------------------------------
(* C36 *)

\* C36: after performUpdate has returned, whatever its result (success,
\* failure, no updates, WiFi failed, invalid URL), updateInProgress is false
\* and the WiFi interface is disconnected and switched off.
C36_UpdateLeavesWiFiOff ==
  (pc = "handled" /\ bleCommand = "update_firmware") =>
     /\ ~ota.updateInProgress
     /\ ~ota.wifiLink
     /\ ota.wifiMode = "WIFI_OFF"

-----------------------------------------------------------------------------
(* C37 *)

\* the auto-sleep condition as update() would find it at the clock now
AutoSleepAt(p, now) ==
  checkAutoSleepCondition([p EXCEPT !.sleepTimer =
                                      Sub32(now, p.lastActivityTime)])

\* C37: extendSleepTimer(d) only postpones inactivity sleep: after the call
\* the auto-sleep condition is not true unless it was true before the call,
\* and getSleepTimeRemaining() is not less than before the call.
C37_ExtendOnlyPostpones ==
  [][(\E additionalMs \in Extensions : extendSleepTimer(additionalMs))
     => /\ AutoSleepAt(powerMgr', millis') => AutoSleepAt(powerMgr, millis)
        /\ getSleepTimeRemaining(powerMgr', millis')
             >= getSleepTimeRemaining(powerMgr, millis)]_vars

-----------------------------------------------------------------------------
(* C38 *)

\* the value handleConfigCommand hands to the update function of command c
ValueOf(c) ==
  LET f == CHOOSE g \in Settings : startsWith(c, ConfigNames[g])
  IN [setting |-> f,
      value |-> substringFrom(c, Len(ConfigNames[f]) + 2)]

\* a value that is not valid for its setting: a Bluetooth name that is empty
\* or has 20 or more characters, an SSID that is empty or has more than 32,
\* an empty password, an address that is not digits with exactly three dots,
\* a port outside 1..65535
InvalidValue(f, v) ==
  CASE f = "bluetoothName" -> Len(v) = 0 \/ Len(v) >= 20
    [] f = "ssid" -> Len(v) = 0 \/ Len(v) > 32
    [] f = "password" -> Len(v) = 0
    [] f = "ipAddress" ->
         \/ Len(v) = 0
         \/ \E k \in 1..Len(v) :
              SubSeq(v, k, k) \notin {".", "0", "1", "2", "3", "4", "5", "6",
                                      "7", "8", "9"}
         \/ Cardinality({k \in 1..Len(v) : SubSeq(v, k, k) = "."}) # 3
    [] f = "port" -> Len(v) = 0 \/ toInt(v) < 1 \/ toInt(v) > 65535

\* every setting in memory is valid
AllValid(cfg) ==
  \A f \in Settings : ~InvalidValue(f, cfg[f])

\* C38: an update with a value that is not valid changes neither the
\* configuration in memory nor the store, and after any sequence of
\* construction, loadAll, update and resetToDefaults the configuration in
\* memory satisfies all validators.
C38_ConfigurationStaysValid ==
  /\ []AllValid(config)
  /\ [][\A c \in StoreCommands :
          (handleCommand_config(c)
             /\ InvalidValue(ValueOf(c).setting, ValueOf(c).value))
          => UNCHANGED <<config, preferences>>]_vars

\* an update with a value that is not valid was handled after a valid one,
\* on a device that found values that are not valid in its store
C38_Witness ==
  /\ pc = "handled"
  /\ bleCommand = "update_portAB"
  /\ config.port = "80"
  /\ "ipaddress" \in DOMAIN preferences
  /\ preferences["ipaddress"] = "10.0.0"

-----------------------------------------------------------------------------
(* C39 *)

\* sub occurs in str
Contains(str, sub) ==
  \E k \in 1..(Len(str) - Len(sub) + 1) :
     SubSeq(str, k, k + Len(sub) - 1) = sub

\* the passwords the update_password commands carry: what updatePassword is
\* given and stores
SentPasswords ==
  {substringFrom("update_password" \o v, 17) : v \in PasswordValues}

\* a line of the output shows a password that was sent
ShowsPassword(line) ==
  \E pw \in SentPasswords : Contains(line.text \o line.arg, pw)

\* C39: the configured WiFi password never appears in what the device writes
\* to the Bluetooth or debug output, so two runs that differ only in the
\* password of their update_password commands emit the same output; the
\* configuration printout shows a placeholder.
C39_PasswordNeverEmitted ==
  \A k \in DOMAIN printed : ~ShowsPassword(printed[k])

\* the printout of get_config after a password was set shows the placeholder
\* and no password
C39_PlaceholderShown ==
  /\ pc = "handled"
  /\ bleCommand = "get_config"
  /\ config.password \in SentPasswords
  /\ \E k \in DOMAIN printed : printed[k] = Text("Password: [PROTECTED]")
  /\ \A k \in DOMAIN printed : ~ShowsPassword(printed[k])

=============================================================================
